---- MODULE Spec2Model ----
(***************************************************************************)
(* Verification model of the AirGo drone route service: the spatial-store  *)
(* adapter (paginated, chunked reads; batched writes), the three request   *)
(* handlers, and the optimise worker driven by the routes-table stream.    *)
(*                                                                         *)
(* Coordinates are integers in metres on a plane (lat = northing,          *)
(* lon = easting); the spherical formulas of the geometry library are      *)
(* replaced by their planar counterparts.                                  *)
(***************************************************************************)
EXTENDS Integers, Sequences, FiniteSets, TLC

VARIABLES
    bw,     \* load-weather-data: the batchWriteItems call and its stats
    spatial,\* the spatial data table: a set of geopoint items
    fq,     \* one call of fetchGeoHashItemsFromDynamoDB and its per-prefix queries
    api,    \* the request handler invocation in progress and its response
    fc,     \* fetchGeoHashItemsFromDynamoDB seen as counts of issued and settled queries
    routes, \* the routes table: route id -> RouteRecord
    stream, \* the change records of the routes table, oldest first
    esm,    \* the event source mapping: its position in the stream and attempt count
    run,    \* the process-new-route invocation in progress
    sink,   \* the events accepted by the notification sink
    hist,   \* what the worker runs did to each route (observation only)
    engine  \* one call of a route-engine function on its own: arguments, position, result

workerVars == <<routes, stream, esm, run, sink, hist>>

vars == <<bw, spatial, fq, api, fc, routes, stream, esm, run, sink, hist, engine>>

----------------------------------------------------------------------------
(* Generic helpers *)

Min(a, b) == IF a <= b THEN a ELSE b

Max(a, b) == IF a >= b THEN a ELSE b

Range(s) == {s[i] : i \in 1..Len(s)}

\* Body of the value of v, where v is evaluated once however often Body uses it
With(v, Body(_)) == CHOOSE r \in {Body(x) : x \in {v}} : TRUE

\* The subsets of S of at most n elements
RECURSIVE SubsetsUpTo(_, _)
SubsetsUpTo(S, n) ==
    IF n = 0 THEN {{}}
    ELSE With(SubsetsUpTo(S, n - 1), LAMBDA smaller : smaller \cup {T \cup {x} : T \in smaller, x \in S})

RECURSIVE Flatten(_)
Flatten(ss) ==
    With(ss, LAMBDA v : IF v = <<>> THEN <<>> ELSE Head(v) \o Flatten(Tail(v)))

----------------------------------------------------------------------------
(* Geohash grid (ngeohash on the plane) and the spatial data table *)

\* process.env.PARTITION_KEY_HASH_PRECISION || '5'
PARTITION_KEY_HASH_PRECISION == 5

\* process.env.GSI_HASH_PRECISION || '4'
GSI_HASH_PRECISION == 4

\* Height and width in metres of one geohash cell: a precision-4 cell holds
\* 4 x 8 precision-5 cells
CellLat(precision) == IF precision >= 5 THEN 5000 ELSE 20000

CellLon(precision) == IF precision >= 5 THEN 5000 ELSE 40000

\* geohash.encode(lat, lon, precision): the cell that holds the point
geohash_encode(lat, lon, precision) ==
    <<precision, lat \div CellLat(precision), lon \div CellLon(precision)>>

\* geohash.bboxes(minLat, minLon, maxLat, maxLon, precision): every cell from
\* the south-west corner's to the north-east corner's, row by row
geohash_bboxes(minLat, minLon, maxLat, maxLon, precision) ==
    LET r0 == minLat \div CellLat(precision)
        r1 == maxLat \div CellLat(precision)
        c0 == minLon \div CellLon(precision)
        c1 == maxLon \div CellLon(precision)
        nr == r1 - r0 + 1
        nc == c1 - c0 + 1
    IN IF nr <= 0 \/ nc <= 0 THEN <<>>
       ELSE [k \in 1..(nr * nc) |->
                <<precision, r0 + ((k - 1) \div nc), c0 + ((k - 1) % nc)>>]

\* A stored geopoint. PK is the precision-5 cell of the point; GSI1PK, kept
\* only by items of the sparse index, is its precision-4 cell. SK orders the
\* items of a partition (here by id).
GeoItem(id, lat, lon, type, population, visibility, windSpeed, sparse) ==
    [id |-> id, lat |-> lat, lon |-> lon, type |-> type,
     population |-> population, visibility |-> visibility, windSpeed |-> windSpeed,
     PK |-> geohash_encode(lat, lon, PARTITION_KEY_HASH_PRECISION),
     GSI1PK |-> IF sparse THEN {geohash_encode(lat, lon, GSI_HASH_PRECISION)} ELSE {}]

RECURSIVE SortById(_)
SortById(S) ==
    IF S = {} THEN <<>>
    ELSE LET m == CHOOSE x \in S : \A y \in S : x.id <= y.id
         IN <<m>> \o SortById(S \ {m})

\* The items a Query with KeyConditionExpression 'PK = :pk' (or 'GSI1PK = :pk'
\* on index GSI1) ranges over, in sort-key order
Partition(store, geoHash, useGSI1) ==
    SortById({it \in store : IF useGSI1 THEN geoHash \in it.GSI1PK ELSE it.PK = geoHash})

----------------------------------------------------------------------------
(* Spatial store adapter: performGeospatialQueryCommand and                *)
(* fetchGeoHashItemsFromDynamoDB                                           *)

\* const MAXIMUM_DYNAMODB_FETCH = 10
MAXIMUM_DYNAMODB_FETCH == 10

\* const DYNAMODB_FETCH_LIMIT = 1000
DYNAMODB_FETCH_LIMIT == 1000

\* chunkArray(geoHashes, 50)
FETCH_CHUNK_SIZE == 50

\* chunkArray(arr, size)
chunkArray(arr, size) ==
    [k \in 1..((Len(arr) + size - 1) \div size) |->
        SubSeq(arr, (k - 1) * size + 1, Min(k * size, Len(arr)))]

\* The answers the table can give to one Query whose ExclusiveStartKey is
\* startKey ({} when undefined, else {n}: the key of the n-th item): the
\* request is rejected, or it returns the next 1..Limit items (the store
\* chooses where a page ends) with the key of the last one as
\* LastEvaluatedKey; after the last item of the partition LastEvaluatedKey
\* may be absent or still set, and the page after it is then empty.
QueryResponses(part, startKey, limit) ==
    LET from == IF startKey = {} THEN 0 ELSE CHOOSE n \in startKey : TRUE
        rem  == Len(part) - from
    IN {[rejected |-> TRUE, Items |-> <<>>, LastEvaluatedKey |-> {}]}
       \cup
       {[rejected |-> FALSE, Items |-> SubSeq(part, from + 1, from + k),
         LastEvaluatedKey |-> {from + k}] : k \in 1..Min(rem, limit)}
       \cup
       (IF rem <= limit
        THEN {[rejected |-> FALSE, Items |-> SubSeq(part, from + 1, from + rem),
               LastEvaluatedKey |-> {}]}
        ELSE {})

\* A slip that never advances the start key
NextStartKeyUnset(lastEvaluatedKey) == {}

\* ExclusiveStartKey: lastEvaluatedKey
NextStartKey(lastEvaluatedKey) == lastEvaluatedKey

\* State of one performGeospatialQueryCommand call when its first request is
\* issued: lastEvaluatedKey undefined, returnData empty, index 0
QueryStart(geoHash) ==
    [geoHash |-> geoHash, st |-> "inflight", index |-> 0, startKey |-> NextStartKey({}),
     returnData |-> <<>>, sent |-> <<{}>>, got |-> <<>>]

\* One pass of the for loop body after `await ddb.send(params)` resolved
\* with data; the loop goes on (the next request is issued) when data carried
\* a LastEvaluatedKey and index + 1 < MAXIMUM_DYNAMODB_FETCH, and the call
\* returns returnData otherwise
QueryOnData(qs, data) ==
    LET rd   == IF Len(data.Items) > 0 THEN qs.returnData \o data.Items ELSE qs.returnData
        more == data.LastEvaluatedKey # {} /\ qs.index + 1 < MAXIMUM_DYNAMODB_FETCH
    IN [qs EXCEPT !.returnData = rd,
                  !.got = Append(@, data),
                  !.index = @ + 1,
                  !.startKey = NextStartKey(data.LastEvaluatedKey),
                  !.sent = IF more THEN Append(@, NextStartKey(data.LastEvaluatedKey)) ELSE @,
                  !.st = IF more THEN "inflight" ELSE "ok"]

\* A slip that keeps the pages a query had read before it failed
PrefixErrorKeepsPages(f, i) ==
    [f EXCEPT !.q[i].st = "failed", !.errorsLogged = @ + 1, !.results = @ \o f.q[i].returnData]

\* A slip that lets the rejection of one query reject Promise.all
PrefixErrorRethrown(f, i) ==
    [f EXCEPT !.q[i].st = "failed", !.pc = "threw"]

\* catch (err) { logger.error(`Error querying prefix ${prefix}`, ...) }
PrefixErrorCaught(f, i) ==
    [f EXCEPT !.q[i].st = "failed", !.errorsLogged = @ + 1]

\* No call of fetchGeoHashItemsFromDynamoDB in progress
FetchIdle ==
    [pc |-> "idle", geoHashes |-> <<>>, useGSI1 |-> FALSE, chunks |-> <<>>, chunk |-> 0,
     q |-> <<>>, results |-> <<>>, errorsLogged |-> 0]

\* No handler invocation in progress
ApiIdle == [pc |-> "idle", handler |-> "none", params |-> <<>>, response |-> <<>>,
            queried |-> <<>>, written |-> <<>>, put |-> "none"]

\* No counted call in progress
CountIdle == [pc |-> "idle", n |-> 0, chunks |-> <<>>, chunk |-> 0, inflight |-> 0,
              issued |-> 0, settled |-> 0, failed |-> 0]

\* No process-new-route invocation in progress
RunIdle ==
    [pc |-> "idle", pos |-> 0, eventName |-> "", routeRecord |-> <<>>,
     startPoint |-> <<>>, endPoint |-> <<>>, results |-> <<>>, out |-> <<>>,
     updated |-> FALSE, publish |-> "none", deadline |-> "none"]

\* No route-engine call is being watched
EngineIdle == [pc |-> "idle"]

\* The routes table is empty and its stream holds no record; no worker runs
WorkerIdle ==
    /\ routes = <<>>
    /\ stream = <<>>
    /\ esm = [pos |-> 1, attempts |-> 0]
    /\ run = RunIdle
    /\ sink = <<>>
    /\ hist = [invoked |-> {}, route |-> <<>>]

\* Positions in geoHashes of the prefixes of chunk number c
ChunkMembers(f, c) ==
    {i \in 1..Len(f.geoHashes) :
        (c - 1) * FETCH_CHUNK_SIZE < i /\ i <= c * FETCH_CHUNK_SIZE}

InFlight(f) == {i \in DOMAIN f.q : f.q[i].st = "inflight"}

\* chunk.map(async (prefix) => ...): every query of the chunk is started and
\* has its first request outstanding when Promise.all is awaited
ChunkIssue(f, c) ==
    [f EXCEPT !.chunk = c,
              !.q = [i \in DOMAIN f.q |->
                        IF i \in ChunkMembers(f, c) THEN QueryStart(f.geoHashes[i])
                        ELSE f.q[i]]]

\* Entry of fetchGeoHashItemsFromDynamoDB: results = [], chunks computed,
\* and either the first chunk is issued or (no prefixes) the call returns
FetchCall(geoHashes, useGSI1) ==
    With(geoHashes, LAMBDA hashes :
        With([pc |-> "fetching", geoHashes |-> hashes, useGSI1 |-> useGSI1,
              chunks |-> chunkArray(hashes, FETCH_CHUNK_SIZE), chunk |-> 0,
              q |-> [i \in 1..Len(hashes) |->
                       [geoHash |-> hashes[i], st |-> "waiting", index |-> 0,
                        startKey |-> {}, returnData |-> <<>>, sent |-> <<>>, got |-> <<>>]],
              results |-> <<>>, errorsLogged |-> 0],
             LAMBDA f0 : IF Len(f0.chunks) = 0 THEN [f0 EXCEPT !.pc = "returned"]
                         ELSE ChunkIssue(f0, 1)))

\* A response to the outstanding request of query i arrives
PageResponse(i) ==
    /\ fq.pc = "fetching"
    /\ i \in InFlight(fq)
    /\ \E data \in QueryResponses(Partition(spatial, fq.q[i].geoHash, fq.useGSI1),
                                  fq.q[i].startKey, DYNAMODB_FETCH_LIMIT) :
         IF data.rejected
         THEN fq' = PrefixErrorCaught(fq, i)
         ELSE LET qs == QueryOnData(fq.q[i], data) IN
              fq' = [fq EXCEPT !.q[i] = qs,
                               \* if (response) results.push(...response)
                               !.results = IF qs.st = "ok" THEN @ \o qs.returnData ELSE @]
    /\ UNCHANGED <<bw, spatial, engine, api, fc, workerVars>>

\* Promise.all of the current chunk settled: the for-of loop takes the next
\* chunk, or the call returns results
ChunkAdvance ==
    /\ fq.pc = "fetching"
    /\ \A i \in ChunkMembers(fq, fq.chunk) : fq.q[i].st \in {"ok", "failed"}
    /\ fq' = IF fq.chunk < Len(fq.chunks) THEN ChunkIssue(fq, fq.chunk + 1)
                                          ELSE [fq EXCEPT !.pc = "returned"]
    /\ UNCHANGED <<bw, spatial, engine, api, fc, workerVars>>

FetchNext == (\E i \in DOMAIN fq.q : PageResponse(i)) \/ ChunkAdvance

----------------------------------------------------------------------------
(* get-bounding-box handler, run over the store adapter step by step *)

\* A query-string or body parameter: absent (undefined), the empty string,
\* or a numeric text whose parseFloat is v
Missing == [k |-> "missing", v |-> 0]

EmptyText == [k |-> "empty", v |-> 0]

Num(v) == [k |-> "num", v |-> v]

\* p ? parseFloat(p) : 0
ParseOrZero(p) == IF p.k = "num" THEN p.v ELSE 0

\* [latMin, lonMin, latMax, lonMax].some((v) => v === undefined)
BBoxParamMissing(params) ==
    \E name \in {"latMin", "lonMin", "latMax", "lonMax"} : params[name].k = "missing"

\* A slip that tests only the first parameter
BBoxParamMissingFirstOnly(params) == params["latMin"].k = "missing"

\* return { statusCode: 400, body: { message: 'Missing ... parameters.' } }
Response400 == [statusCode |-> 400, items |-> <<>>, count |-> 0, routeId |-> {}]

\* const boundingBox: BoundingBox = { latMin: ..., lonMin: ..., latMax: ..., lonMax: ... }
BoundingBoxOf(params) ==
    [latMin |-> ParseOrZero(params.latMin), lonMin |-> ParseOrZero(params.lonMin),
     latMax |-> ParseOrZero(params.latMax), lonMax |-> ParseOrZero(params.lonMax)]

\* getBoundingBoxGeoHashes(boundingBox, precision)
getBoundingBoxGeoHashes(boundingBox, precision) ==
    geohash_bboxes(boundingBox.latMin, boundingBox.lonMin,
                   boundingBox.latMax, boundingBox.lonMax, precision)

\* A slip that filters on the latitude alone
InBoundingBoxLatOnly(item, boundingBox) ==
    /\ item.lat >= boundingBox.latMin
    /\ item.lat <= boundingBox.latMax

\* results.filter((item) => item.lat >= latMin && item.lat <= latMax && ...)
InBoundingBox(item, boundingBox) ==
    /\ item.lat >= boundingBox.latMin
    /\ item.lat <= boundingBox.latMax
    /\ item.lon >= boundingBox.lonMin
    /\ item.lon <= boundingBox.lonMax

\* return { body: { items: filteredResults, count: filteredResults.length }, ...RETURN_HEADERS }
BBoxResponse(boundingBox, results) ==
    LET filteredResults == SelectSeq(results, LAMBDA item : InBoundingBox(item, boundingBox))
    IN [statusCode |-> 200, items |-> filteredResults, count |-> Len(filteredResults),
        routeId |-> {}]

\* Bounding boxes requested in the step-by-step runs
MaxBoxCells == 4

\* Requests whose bounding box, when every parameter is there, covers at most
\* MaxBoxCells cells of the sparse index
BBoxRequests ==
    {p \in [latMin : {Missing, Num(0)},
            lonMin : {Missing, EmptyText, Num(0)},
            latMax : {Missing} \cup {Num(r * CellLat(GSI_HASH_PRECISION) - 5000) : r \in 1..MaxBoxCells},
            lonMax : {Missing} \cup {Num(c * CellLon(GSI_HASH_PRECISION) - 5000) : c \in 1..MaxBoxCells}] :
        (p.latMax # Missing /\ p.lonMax # Missing) =>
            ((p.latMax.v + 5000) \div CellLat(GSI_HASH_PRECISION))
              * ((p.lonMax.v + 5000) \div CellLon(GSI_HASH_PRECISION)) <= MaxBoxCells}

\* Geopoints the stores of the step-by-step runs are drawn from: two in one
\* precision-4 cell, one in each of two neighbouring cells, and one that the
\* sparse index does not hold
FetchCatalogue ==
    {GeoItem(1, 1000, 1000, "Population", 900, 0, 0, TRUE),
     GeoItem(2, 16000, 37000, "Weather", 0, 600, 24, TRUE),
     GeoItem(3, 21000, 3000, "Population", 700, 0, 0, TRUE),
     GeoItem(4, 4000, 41000, "Weather", 0, 5000, 8, TRUE),
     GeoItem(5, 2000, 2000, "Population", 10, 0, 0, FALSE)}

\* Handler entry up to the first await: the parameter check, then the
\* bounding box, its geohash prefixes and the call of the store adapter
BBoxHandle(params) ==
    IF BBoxParamMissing(params)
    THEN /\ api' = [ApiIdle EXCEPT !.pc = "responded", !.handler = "get-bounding-box",
                               !.params = params, !.response = Response400]
         /\ fq' = fq
    ELSE LET hashPrefixes == getBoundingBoxGeoHashes(BoundingBoxOf(params), GSI_HASH_PRECISION)
         IN /\ api' = [ApiIdle EXCEPT !.pc = "awaitFetch", !.handler = "get-bounding-box",
                                  !.params = params, !.queried = hashPrefixes]
            /\ fq' = FetchCall(hashPrefixes, TRUE)

BBoxInvoke ==
    /\ api.pc = "idle"
    /\ \E params \in BBoxRequests : BBoxHandle(params)
    /\ UNCHANGED <<bw, spatial, engine, fc, workerVars>>

\* The adapter resolved: filter and respond
BBoxRespond ==
    /\ api.pc = "awaitFetch"
    /\ api.handler = "get-bounding-box"
    /\ fq.pc = "returned"
    /\ api' = [api EXCEPT !.pc = "responded",
                          !.response = BBoxResponse(BoundingBoxOf(api.params), fq.results)]
    /\ UNCHANGED <<bw, spatial, engine, fq, fc, workerVars>>

FetchInit ==
    /\ bw = [pc |-> "idle"]
    /\ spatial \in SUBSET FetchCatalogue
    /\ fq = FetchIdle
    /\ api = ApiIdle
    /\ fc = CountIdle
    /\ WorkerIdle
    /\ engine = EngineIdle

SpecFetch == FetchInit /\ [][BBoxInvoke \/ FetchNext \/ BBoxRespond]_vars

\* seq occurs in whole as one run of consecutive elements
Contiguous(part, seq) ==
    \E off \in 0..(Len(seq) - Len(part)) : SubSeq(seq, off + 1, off + Len(part)) = part

RECURSIVE SumParts(_)
SumParts(is) ==
    IF is = {} THEN 0
    ELSE LET i == CHOOSE x \in is : TRUE
         IN Len(Partition(spatial, fq.geoHashes[i], fq.useGSI1)) + SumParts(is \ {i})

\* C7: a rejected query of one prefix never makes fetchGeoHashItemsFromDynamoDB
\* fail; the call always resolves, its result is exactly the items of the
\* prefixes whose queries succeeded (each partition once, whole, one after
\* another), every failure is logged, and the bounding-box
\* handler then answers 200 (with no items when every prefix failed).
C7_FailedPrefixElided ==
    /\ fq.pc # "threw"
    /\ fq.errorsLogged = Cardinality({i \in DOMAIN fq.q : fq.q[i].st = "failed"})
    /\ fq.pc = "returned" =>
          /\ \A i \in DOMAIN fq.q : fq.q[i].st \in {"ok", "failed"}
          /\ Len(fq.results) = SumParts({i \in DOMAIN fq.q : fq.q[i].st = "ok"})
          /\ \A i \in DOMAIN fq.q :
                LET part == Partition(spatial, fq.geoHashes[i], fq.useGSI1) IN
                IF fq.q[i].st = "ok" THEN Contiguous(part, fq.results)
                ELSE Range(part) \cap Range(fq.results) = {}
    /\ (api.pc = "responded" /\ ~BBoxParamMissing(api.params)) =>
          /\ api.response.statusCode = 200
          /\ api.response.count = Len(api.response.items)
          /\ (\A i \in DOMAIN fq.q : fq.q[i].st = "failed") => api.response.items = <<>>

\* The handler answered 200 after one prefix with stored items failed and
\* another with stored items succeeded
C7_Witness ==
    /\ api.pc = "responded"
    /\ api.response.statusCode = 200
    /\ fq.pc = "returned"
    /\ \E i, j \in DOMAIN fq.q :
          /\ fq.q[i].st = "failed"
          /\ Partition(spatial, fq.geoHashes[i], fq.useGSI1) # <<>>
          /\ fq.q[j].st = "ok"
          /\ fq.q[j].returnData # <<>>
          /\ api.response.count > 0

\* C18: every item of a 200 response of the bounding-box handler lies within
\* the requested box, bounds included, and count is the number of items
C18_ItemsWithinBox ==
    (api.pc = "responded" /\ api.handler = "get-bounding-box" /\ api.response.statusCode = 200) =>
        /\ \A i \in 1..Len(api.response.items) :
              /\ ParseOrZero(api.params.latMin) <= api.response.items[i].lat
              /\ api.response.items[i].lat <= ParseOrZero(api.params.latMax)
              /\ ParseOrZero(api.params.lonMin) <= api.response.items[i].lon
              /\ api.response.items[i].lon <= ParseOrZero(api.params.lonMax)
        /\ api.response.count = Len(api.response.items)

\* A response that kept some of the items the store returned for the covering
\* cells and dropped the others, north or east of the box
C18_Witness ==
    /\ api.pc = "responded"
    /\ api.handler = "get-bounding-box"
    /\ api.response.statusCode = 200
    /\ api.response.count >= 1
    /\ \E i \in 1..Len(fq.results) : fq.results[i].lat > ParseOrZero(api.params.latMax)
    /\ \E i \in 1..Len(fq.results) : fq.results[i].lon > ParseOrZero(api.params.lonMax)

----------------------------------------------------------------------------
(* The same handler over one long partition: pagination *)

\* Largest number of items under one prefix
MaxPartitionItems == 11

PageStore(n) == {GeoItem(i, 1000, 1000 + i, "Weather", 0, 5000, 8, TRUE) : i \in 1..n}

PageRequests ==
    [latMin : {Num(0)}, lonMin : {Missing, Num(0)}, latMax : {Num(15000)}, lonMax : {Num(35000)}]

PageInvoke ==
    /\ api.pc = "idle"
    /\ \E params \in PageRequests : BBoxHandle(params)
    /\ UNCHANGED <<bw, spatial, engine, fc, workerVars>>

PageInit ==
    /\ bw = [pc |-> "idle"]
    /\ spatial \in {PageStore(n) : n \in 0..MaxPartitionItems}
    /\ fq = FetchIdle
    /\ api = ApiIdle
    /\ fc = CountIdle
    /\ WorkerIdle
    /\ engine = EngineIdle

SpecPage == PageInit /\ [][PageInvoke \/ FetchNext \/ BBoxRespond]_vars

\* C8: performGeospatialQueryCommand sends at most 10 requests per prefix, the
\* first with no start key and each later one with the LastEvaluatedKey of the
\* response before it, stops at the first response without a LastEvaluatedKey,
\* and returns the pages read, in order, without gap or repeat; at the cap of
\* 10 pages with more data left it returns what it read and raises no error.
C8_Pagination ==
    \A i \in DOMAIN fq.q :
       LET qs   == fq.q[i]
           part == Partition(spatial, qs.geoHash, fq.useGSI1)
       IN qs.st # "waiting" =>
            /\ Len(qs.sent) <= 10
            /\ Len(qs.sent) >= 1 /\ qs.sent[1] = {}
            /\ \A j \in 2..Len(qs.sent) :
                  /\ qs.got[j - 1].LastEvaluatedKey # {}
                  /\ qs.sent[j] = qs.got[j - 1].LastEvaluatedKey
            /\ qs.st = "inflight" => Len(qs.sent) = Len(qs.got) + 1
            /\ qs.returnData = Flatten([j \in 1..Len(qs.got) |-> qs.got[j].Items])
            /\ qs.returnData = SubSeq(part, 1, Len(qs.returnData))
            /\ qs.st = "ok" =>
                  /\ Len(qs.sent) = Len(qs.got)
                  /\ \/ qs.got[Len(qs.got)].LastEvaluatedKey = {}
                     \/ Len(qs.got) = 10
                  /\ Contiguous(qs.returnData, fq.results)
                  /\ fq.pc # "threw"

\* A query that stopped at the cap: ten pages read, the tenth still carrying a
\* LastEvaluatedKey, items left unread, and the handler answered 200
C8_Witness ==
    /\ api.pc = "responded"
    /\ api.response.statusCode = 200
    /\ \E i \in DOMAIN fq.q :
          /\ fq.q[i].st = "ok"
          /\ Len(fq.q[i].got) = 10
          /\ fq.q[i].got[10].LastEvaluatedKey # {}
          /\ Len(fq.q[i].returnData) < Len(Partition(spatial, fq.q[i].geoHash, fq.useGSI1))
          /\ api.response.count = Len(fq.q[i].returnData)

----------------------------------------------------------------------------
(* fetchGeoHashItemsFromDynamoDB by counts: how many per-prefix queries    *)
(* have been issued and how many have settled. A query is outstanding      *)
(* from the start of its chunk until its last page arrived or it failed.   *)

\* Largest number of prefixes handed to one call
MaxPrefixes == 101

\* A slip that starts the next chunk without awaiting the current one
ChunkNotAwaited(c) == TRUE

\* for (const chunk of chunks) { await Promise.all(...) }: the loop takes the
\* next chunk only when every promise of the current one has settled
ChunkSettled(c) == c.inflight = 0

\* Entry: chunks computed, first chunk started (or nothing to do)
CountCall ==
    /\ fc.pc = "idle"
    /\ \E n \in 0..MaxPrefixes :
         LET chunks == chunkArray([i \in 1..n |-> i], FETCH_CHUNK_SIZE) IN
         fc' = IF Len(chunks) = 0
               THEN [fc EXCEPT !.pc = "returned", !.n = n, !.chunks = chunks]
               ELSE [fc EXCEPT !.pc = "fetching", !.n = n, !.chunks = chunks, !.chunk = 1,
                               !.inflight = Len(chunks[1]), !.issued = Len(chunks[1])]
    /\ UNCHANGED <<bw, spatial, engine, fq, api, workerVars>>

\* One outstanding query settles: it returned its pages, or it was rejected
\* and the rejection was caught and logged
CountSettle ==
    /\ fc.pc = "fetching"
    /\ fc.inflight > 0
    /\ \E ok \in BOOLEAN :
         fc' = [fc EXCEPT !.inflight = @ - 1, !.settled = @ + 1,
                          !.failed = IF ok THEN @ ELSE @ + 1]
    /\ UNCHANGED <<bw, spatial, engine, fq, api, workerVars>>

\* The awaited Promise.all resolved: next chunk, or return
CountAdvance ==
    /\ fc.pc = "fetching"
    /\ ChunkSettled(fc)
    /\ fc' = IF fc.chunk < Len(fc.chunks)
             THEN [fc EXCEPT !.chunk = @ + 1,
                             !.inflight = @ + Len(fc.chunks[fc.chunk + 1]),
                             !.issued = @ + Len(fc.chunks[fc.chunk + 1])]
             ELSE [fc EXCEPT !.pc = "returned"]
    /\ UNCHANGED <<bw, spatial, engine, fq, api, workerVars>>

CountInit ==
    /\ bw = [pc |-> "idle"]
    /\ spatial = {}
    /\ fq = FetchIdle
    /\ api = ApiIdle
    /\ fc = CountIdle
    /\ WorkerIdle
    /\ engine = EngineIdle

SpecFetchCount == CountInit /\ [][CountCall \/ CountSettle \/ CountAdvance]_vars

RECURSIVE SumLens(_, _)
SumLens(chunks, upto) ==
    IF upto <= 0 THEN 0 ELSE Len(chunks[upto]) + SumLens(chunks, upto - 1)

\* C6: at most 50 per-prefix queries are outstanding at any moment, whatever
\* the number of prefixes, and a query of a later chunk is issued only after
\* every query of the chunks before it has settled (succeeded or failed).
C6_AtMost50InFlight ==
    /\ fc.inflight <= 50
    /\ fc.inflight = fc.issued - fc.settled
    /\ fc.pc = "fetching" =>
          /\ fc.issued = SumLens(fc.chunks, fc.chunk)
          /\ fc.settled >= SumLens(fc.chunks, fc.chunk - 1)
    /\ fc.pc = "returned" => fc.issued = fc.n /\ fc.settled = fc.n

\* More than 100 prefixes: the third chunk is outstanding after two full
\* chunks of 50 settled, some of them by failing
C6_Witness ==
    /\ fc.pc = "fetching"
    /\ fc.n > 100
    /\ fc.chunk = 3
    /\ fc.inflight > 0
    /\ fc.settled = 100
    /\ fc.failed > 0

----------------------------------------------------------------------------
(* Route engine: geometry (geolib on the plane, distances rounded to 1 m)  *)

Abs(x) == IF x < 0 THEN -x ELSE x

\* a / b rounded to the nearest integer, for b > 0
RoundDiv(a, b) == (2 * a + b) \div (2 * b)

\* The largest r in lo..hi with r * r <= n
RECURSIVE SqrtBetween(_, _, _)
SqrtBetween(n, lo, hi) ==
    IF lo >= hi THEN lo
    ELSE With((lo + hi + 1) \div 2,
              LAMBDA mid : IF mid * mid <= n THEN SqrtBetween(n, mid, hi)
                           ELSE SqrtBetween(n, lo, mid - 1))

\* Math.round(Math.sqrt(n))
RoundSqrt(n) ==
    With(n, LAMBDA v :
        With(SqrtBetween(v, 0, Min(v, 46340)), LAMBDA r : IF v - r * r > r THEN r + 1 ELSE r))

\* The first occurrence of every element, in order (Array.from(new Set(...)))
Dedupe(s) ==
    With(s, LAMBDA v :
        With({i \in 1..Len(v) : \A j \in 1..(i - 1) : v[j] # v[i]}, LAMBDA first :
            LET nth(k) == CHOOSE i \in first : Cardinality({j \in first : j < i}) = k - 1
            IN [k \in 1..Cardinality(first) |-> v[nth(k)]]))

\* geolib getDistance(a, b): metres, accuracy 1
getDistance(a, b) ==
    RoundSqrt((a.lat - b.lat) * (a.lat - b.lat) + (a.lon - b.lon) * (a.lon - b.lon))

\* geolib getRhumbLineBearing(origin, dest), kept as the unit vector of the
\* bearing in thousandths; identical points give bearing 0 (north)
getRhumbLineBearing(origin, dest) ==
    With(getDistance(origin, dest), LAMBDA d :
        IF d = 0 THEN [lat |-> 1000, lon |-> 0]
        ELSE [lat |-> RoundDiv(1000 * (dest.lat - origin.lat), d),
              lon |-> RoundDiv(1000 * (dest.lon - origin.lon), d)])

\* geolib computeDestinationPoint(start, distance, bearing)
computeDestinationPoint(start, distance, bearing) ==
    [lat |-> start.lat + RoundDiv(distance * bearing.lat, 1000),
     lon |-> start.lon + RoundDiv(distance * bearing.lon, 1000)]

\* geolib getDistanceFromLine(point, lineStart, lineEnd): {} stands for NaN,
\* which the library yields when the point is the line start or the line
\* has no length (0 / 0 inside acos)
getDistanceFromLine(point, lineStart, lineEnd) ==
    With(<<getDistance(lineStart, point), getDistance(point, lineEnd),
           getDistance(lineStart, lineEnd)>>,
         LAMBDA d :
            LET d1 == d[1]
                d2 == d[2]
                d3 == d[3]
                cosAlpha == d1 * d1 + d3 * d3 - d2 * d2
                cosBeta == d2 * d2 + d3 * d3 - d1 * d1
                alphaNaN == d1 = 0 \/ d3 = 0
                betaNaN == d2 = 0 \/ d3 = 0
                along == Min(d1, RoundDiv(cosAlpha, 2 * d3))
            IN IF ~alphaNaN /\ cosAlpha < 0 THEN {d1}
               ELSE IF ~betaNaN /\ cosBeta < 0 THEN {d2}
               ELSE IF alphaNaN THEN {}
               ELSE {RoundSqrt(d1 * d1 - along * along)})

----------------------------------------------------------------------------
(* Route engine: corridor prefixes, points near a route, impact assessment *)

\* const STEP_DISTANCE = 1000
STEP_DISTANCE == 1000

\* const SEARCH_ITERATIONS = 10
SEARCH_ITERATIONS == 10

\* stepMeters = 1000
stepMeters == 1000

\* bufferMeters = 10000
bufferMeters == 10000

\* A slip that keeps only the cell of every sample, not its buffer box
getRouteGeoHashesNoBuffer(start, end, precision, step, buffer) ==
    LET routeLength == getDistance(start, end)
        bearing == getRhumbLineBearing(start, end)
        steps == routeLength \div step
        cell(i) ==
            LET point == computeDestinationPoint(start, i * step, bearing)
            IN geohash_encode(point.lat, point.lon, precision)
    IN Dedupe(<<geohash_encode(start.lat, start.lon, precision),
                geohash_encode(end.lat, end.lon, precision)>>
              \o [k \in 1..(steps + 1) |-> cell(k - 1)])

\* getRouteGeoHashes(start, end, precision, stepMeters, bufferMeters): the
\* cells of start and end, then the cells of the buffer box around every
\* sample of the rhumb line
getRouteGeoHashesWith(start, end, precision, step, buffer) ==
    LET routeLength == getDistance(start, end)
        bearing == getRhumbLineBearing(start, end)
        steps == routeLength \div step
        boxes(i) ==
            LET point == computeDestinationPoint(start, i * step, bearing)
            IN geohash_bboxes(point.lat - buffer, point.lon - buffer,
                              point.lat + buffer, point.lon + buffer, precision)
    IN Dedupe(<<geohash_encode(start.lat, start.lon, precision),
                geohash_encode(end.lat, end.lon, precision)>>
              \o Flatten([k \in 1..(steps + 1) |-> boxes(k - 1)]))

\* getRouteGeoHashes(start, end, precision), as every caller uses it: with
\* the default step and buffer
getRouteGeoHashes(start, end, precision) ==
    getRouteGeoHashesWith(start, end, precision, stepMeters, bufferMeters)

\* getPointsNearRouteSegment(start, end, geoPoints)
getPointsNearRouteSegment(start, end, geoPoints) ==
    LET near(point) ==
            /\ point.lat # 0
            /\ point.lon # 0
            /\ \E distance \in getDistanceFromLine(point, start, end) :
                 \/ distance <= 500 /\ point.type = "Population"
                 \/ distance <= 20000 /\ point.type = "Weather"
    IN SelectSeq(geoPoints, near)

\* Array.from(new Map(results.map((item) => [`${item.lat},${item.lon}`, item])).values()):
\* one entry per key at the place of its first item, holding its last item
MapValues(results) ==
    With(results, LAMBDA items :
        LET keyOf(item) == <<item.lat, item.lon>>
            last(key) == CHOOSE i \in 1..Len(items) :
                            /\ keyOf(items[i]) = key
                            /\ \A j \in (i + 1)..Len(items) : keyOf(items[j]) # key
        IN With(Dedupe([i \in 1..Len(items) |-> keyOf(items[i])]), LAMBDA keys :
               [k \in 1..Len(keys) |-> items[last(keys[k])]]))

\* A slip that returns the points of every segment as they are
getPointsNearRouteKeepingAll(routePoints, geoPoints) ==
    Flatten([i \in 1..(Len(routePoints) - 1) |->
                getPointsNearRouteSegment(routePoints[i], routePoints[i + 1], geoPoints)])

\* getPointsNearRoute(routePoints, geoPoints)
getPointsNearRoute(routePoints, geoPoints) ==
    MapValues(Flatten([i \in 1..(Len(routePoints) - 1) |->
                          getPointsNearRouteSegment(routePoints[i], routePoints[i + 1], geoPoints)]))

RECURSIVE SumSeq(_)
SumSeq(s) == With(s, LAMBDA v : IF v = <<>> THEN 0 ELSE Head(v) + SumSeq(Tail(v)))

\* s.map(Term)
Map(s, Term(_)) == With(s, LAMBDA v : [i \in 1..Len(v) |-> Term(v[i])])

\* getRouteDistance(routePoints): Number((distance / 500).toFixed(1)), in tenths
getRouteDistance(routePoints) ==
    LET leg(i) == getDistance(routePoints[i], routePoints[i + 1])
        distance == SumSeq([i \in 1..(Len(routePoints) - 1) |-> leg(i)])
    IN RoundDiv(distance, 50)

\* assessPopulationImpact(geoPoints): Math.round of the sum of population * 0.1
assessPopulationImpact(geoPoints) ==
    LET tenths(p) == p.population
        isPopulation(p) == p.type = "Population"
    IN RoundDiv(SumSeq(Map(SelectSeq(geoPoints, isPopulation), tenths)), 10)

\* A slip that leaves out the cap at 5
assessNoiseImpactUncapped(populationImpact) ==
    Max(0, RoundDiv(populationImpact, 100))

\* assessNoiseImpact(populationImpact): min(5, max(0, (impact / 1000).toFixed(1))), in tenths
assessNoiseImpact(populationImpact) ==
    Min(50, Max(0, RoundDiv(populationImpact, 100)))

RECURSIVE MaxSeq(_)
MaxSeq(s) ==
    With(s, LAMBDA v : IF Len(v) = 1 THEN v[1] ELSE With(MaxSeq(Tail(v)), LAMBDA m : Max(Head(v), m)))

\* A slip that keeps the risks of the last weather point, not the highest
assessWeatherImpactLastPoint(geoPoints) ==
    LET isWeather(p) == p.type = "Weather"
        weatherPoints == SelectSeq(geoPoints, isWeather)
        visibilityRiskValue(p) ==
            IF p.visibility < 1000 THEN RoundDiv(1000 - p.visibility, 20) ELSE 0
        windRiskValue(p) ==
            IF p.windSpeed = 0 THEN 0
            ELSE IF p.windSpeed > 20 THEN 50 ELSE RoundDiv(10 * p.windSpeed, 4)
    IN IF weatherPoints = <<>> THEN [visibilityRisk |-> {}, windRisk |-> {}]
       ELSE [visibilityRisk |-> {visibilityRiskValue(weatherPoints[Len(weatherPoints)])},
             windRisk |-> {windRiskValue(weatherPoints[Len(weatherPoints)])}]

\* assessWeatherImpact(geoPoints): both risks in tenths; {} is undefined (no
\* weather point), and `risk && Number(risk.toFixed(1))` keeps 0 as 0
assessWeatherImpact(geoPoints) ==
    LET isWeather(p) == p.type = "Weather"
        weatherPoints == SelectSeq(geoPoints, isWeather)
        visibilityRiskValue(p) ==
            IF p.visibility < 1000 THEN RoundDiv(1000 - p.visibility, 20) ELSE 0
        windRiskValue(p) ==
            IF p.windSpeed = 0 THEN 0
            ELSE IF p.windSpeed > 20 THEN 50 ELSE RoundDiv(10 * p.windSpeed, 4)
    IN IF weatherPoints = <<>> THEN [visibilityRisk |-> {}, windRisk |-> {}]
       ELSE [visibilityRisk |-> {MaxSeq(Map(weatherPoints, visibilityRiskValue))},
             windRisk |-> {MaxSeq(Map(weatherPoints, windRiskValue))}]

----------------------------------------------------------------------------
(* Route engine: findOptimisedRoute *)

\* cos and sin, in thousandths, of ANGLE_RANGE * ((2 * i) / (SEARCH_ITERATIONS - 1) - 1)
\* for i = 0..9: -30, -23.3, -16.7, -10, -3.3, 3.3, 10, 16.7, 23.3, 30 degrees
FanCos == <<866, 918, 958, 985, 998, 998, 985, 958, 918, 866>>

FanSin == <<-500, -396, -287, -174, -58, 58, 174, 287, 396, 500>>

\* angle = directBearing + fan angle number i
FanBearing(directBearing, i) ==
    [lat |-> RoundDiv(FanCos[i + 1] * directBearing.lat - FanSin[i + 1] * directBearing.lon, 1000),
     lon |-> RoundDiv(FanCos[i + 1] * directBearing.lon + FanSin[i + 1] * directBearing.lat, 1000)]

\* `${p.lat.toFixed(6)},${p.lon.toFixed(6)}`
nodeKey(p) == <<p.lat, p.lon>>

\* populationPenalty(point, segmentStart, segmentEnd)
populationPenalty(point, segmentStart, segmentEnd) ==
    LET distance == getDistance(point, segmentEnd)
    IN IF distance <= 500 THEN point.population * 2
       ELSE IF distance <= 1000 THEN point.population
       ELSE 0

\* perpendicularDistance(p, a, b)
perpendicularDistance(p, a, b) == getDistanceFromLine(p, a, b)

\* openSet.sort((a, b) => a.f - b.f): stable, so nodes of equal f stay in
\* the order they had
SortByF(s) ==
    LET rank(i) == Cardinality({j \in 1..Len(s) : s[j].f < s[i].f \/ (s[j].f = s[i].f /\ j < i)})
        at(k) == CHOOSE i \in 1..Len(s) : rank(i) = k - 1
    IN [k \in 1..Len(s) |-> s[at(k)]]

\* A slip that leaves out the deviation constraint
ExpandNeighborsAnyDeviation(start, end, spatialData, current, closedSet) ==
    LET isPopulation(p) == p.type = "Population"
    IN With(<<getDistance(start, end), getRhumbLineBearing(current, end),
              SelectSeq(spatialData, isPopulation)>>,
            LAMBDA c :
               LET straightDist == c[1]
                   directBearing == c[2]
                   segmentData == c[3]
                   neighbor(i) == computeDestinationPoint(current, STEP_DISTANCE,
                                                          FanBearing(directBearing, i))
                   \* perpendicularDistance(...) > maxDeviation, maxDeviation = straightDist * 0.2
                   deviates(p) == \E d \in perpendicularDistance(p, start, end) : 5 * d > straightDist
                   pushed(p) ==
                       LET penalty(popPoint) == populationPenalty(popPoint, current, p)
                       IN IF nodeKey(p) \in closedSet THEN <<>>
                          ELSE With(current.g + SumSeq(Map(segmentData, penalty)),
                                    LAMBDA tentativeG :
                                       <<[lat |-> p.lat, lon |-> p.lon, g |-> tentativeG,
                                          f |-> tentativeG + getDistance(p, end),
                                          path |-> Append(current.path, p)]>>)
               IN Flatten([k \in 1..SEARCH_ITERATIONS |-> With(neighbor(k - 1), pushed)]))

\* A slip that counts the length of the step into the cost so far
ExpandNeighborsCountingLength(start, end, spatialData, current, closedSet) ==
    LET isPopulation(p) == p.type = "Population"
    IN With(<<getDistance(start, end), getRhumbLineBearing(current, end),
              SelectSeq(spatialData, isPopulation)>>,
            LAMBDA c :
               LET straightDist == c[1]
                   directBearing == c[2]
                   segmentData == c[3]
                   neighbor(i) == computeDestinationPoint(current, STEP_DISTANCE,
                                                          FanBearing(directBearing, i))
                   \* perpendicularDistance(...) > maxDeviation, maxDeviation = straightDist * 0.2
                   deviates(p) == \E d \in perpendicularDistance(p, start, end) : 5 * d > straightDist
                   pushed(p) ==
                       LET penalty(popPoint) == populationPenalty(popPoint, current, p)
                       IN IF nodeKey(p) \in closedSet \/ deviates(p) THEN <<>>
                          ELSE With(current.g + STEP_DISTANCE + SumSeq(Map(segmentData, penalty)),
                                    LAMBDA tentativeG :
                                       <<[lat |-> p.lat, lon |-> p.lon, g |-> tentativeG,
                                          f |-> tentativeG + getDistance(p, end),
                                          path |-> Append(current.path, p)]>>)
               IN Flatten([k \in 1..SEARCH_ITERATIONS |-> With(neighbor(k - 1), pushed)]))

\* The for loop over the fan: the neighbours of current that are pushed
ExpandNeighbors(start, end, spatialData, current, closedSet) ==
    LET isPopulation(p) == p.type = "Population"
    IN With(<<getDistance(start, end), getRhumbLineBearing(current, end),
              SelectSeq(spatialData, isPopulation)>>,
            LAMBDA c :
               LET straightDist == c[1]
                   directBearing == c[2]
                   segmentData == c[3]
                   neighbor(i) == computeDestinationPoint(current, STEP_DISTANCE,
                                                          FanBearing(directBearing, i))
                   \* perpendicularDistance(...) > maxDeviation, maxDeviation = straightDist * 0.2
                   deviates(p) == \E d \in perpendicularDistance(p, start, end) : 5 * d > straightDist
                   pushed(p) ==
                       LET penalty(popPoint) == populationPenalty(popPoint, current, p)
                       IN IF nodeKey(p) \in closedSet \/ deviates(p) THEN <<>>
                          ELSE With(current.g + SumSeq(Map(segmentData, penalty)),
                                    LAMBDA tentativeG :
                                       <<[lat |-> p.lat, lon |-> p.lon, g |-> tentativeG,
                                          f |-> tentativeG + getDistance(p, end),
                                          path |-> Append(current.path, p)]>>)
               IN Flatten([k \in 1..SEARCH_ITERATIONS |-> With(neighbor(k - 1), pushed)]))

\* while (openSet.length) { ... }; return [start, end]
RECURSIVE SearchLoop(_, _, _, _, _)
SearchLoop(start, end, spatialData, openSet, closedSet) ==
    IF openSet = <<>> THEN <<start, end>>
    ELSE With(SortByF(openSet), LAMBDA sorted :
         With(Head(sorted), LAMBDA current :
         With(nodeKey(current), LAMBDA key :
            IF key \in closedSet
            THEN SearchLoop(start, end, spatialData, Tail(sorted), closedSet)
            ELSE IF getDistance(current, end) <= STEP_DISTANCE
            THEN Append(current.path, end)
            ELSE With(Tail(sorted) \o ExpandNeighbors(start, end, spatialData, current,
                                                      closedSet \cup {key}),
                      LAMBDA open :
                          With(closedSet \cup {key}, LAMBDA closed :
                              SearchLoop(start, end, spatialData, open, closed))))))

\* findOptimisedRoute(start, end, spatialData)
findOptimisedRoute(start, end, spatialData) ==
    SearchLoop(start, end, spatialData,
               <<[lat |-> start.lat, lon |-> start.lon, g |-> 0,
                  f |-> getDistance(start, end), path |-> <<start>>]>>,
               {})

----------------------------------------------------------------------------
(* Spatial store adapter, one call seen as a single step *)

\* The orders in which the members of a finite set can come
Orderings(S) ==
    {o \in [1..Cardinality(S) -> S] : \A i, j \in 1..Cardinality(S) : i # j => o[i] # o[j]}

\* What performGeospatialQueryCommand can return for a partition when no
\* request fails: all of it, or its first pages when the page cap cut it
QueryResults(part) ==
    {SubSeq(part, 1, n) : n \in {Len(part)} \cup (MAXIMUM_DYNAMODB_FETCH..Len(part))}

\* What the queries of one chunk can push onto results: the reads of the
\* prefixes whose query succeeded, in the order the queries finished
ChunkResults(store, chunk, useGSI1) ==
    LET filled == {i \in 1..Len(chunk) : Partition(store, chunk[i], useGSI1) # <<>>}
        reads == [i \in filled |-> QueryResults(Partition(store, chunk[i], useGSI1))]
    IN UNION {UNION {{Flatten([k \in 1..Len(o) |-> pick[o[k]]]) : o \in Orderings(ok)} :
                        pick \in {f \in [ok -> UNION {reads[i] : i \in ok}] :
                                     \A i \in ok : f[i] \in reads[i]}} :
                 ok \in SUBSET filled}

\* What fetchGeoHashItemsFromDynamoDB can resolve with: chunk after chunk
RECURSIVE FetchResults(_, _, _)
FetchResults(store, chunks, useGSI1) ==
    IF chunks = <<>> THEN {<<>>}
    ELSE {first \o rest : first \in ChunkResults(store, Head(chunks), useGSI1),
                          rest \in FetchResults(store, Tail(chunks), useGSI1)}

\* The call in progress runs to its end
FetchSettle ==
    /\ fq.pc = "fetching"
    /\ \E results \in FetchResults(spatial, fq.chunks, fq.useGSI1) :
         fq' = [fq EXCEPT !.pc = "returned", !.chunk = Len(fq.chunks), !.q = <<>>,
                          !.results = results]
    /\ UNCHANGED <<bw, spatial, engine, api, fc, workerVars>>

----------------------------------------------------------------------------
(* assess-route handler *)

\* [latStart, lonStart, latEnd, lonEnd].some((v) => v === undefined)
AssessParamMissing(params) ==
    \E name \in {"latStart", "lonStart", "latEnd", "lonEnd"} : params[name].k = "missing"

\* startPoint and endPoint: p ? parseFloat(p) : 0
AssessPoints(params) ==
    <<[lat |-> ParseOrZero(params.latStart), lon |-> ParseOrZero(params.lonStart)],
      [lat |-> ParseOrZero(params.latEnd), lon |-> ParseOrZero(params.lonEnd)]>>

\* Step 3 and the 200 response; the one-decimal figures are in tenths
AssessResponse(route, results) ==
    LET routePointsOfInterest == getPointsNearRoute(route, results)
        populationImpact == assessPopulationImpact(routePointsOfInterest)
        weather == assessWeatherImpact(routePointsOfInterest)
    IN [statusCode |-> 200, route |-> route, routeDistance |-> getRouteDistance(route),
        populationImpact |-> populationImpact,
        noiseImpactScore |-> {assessNoiseImpact(populationImpact)},
        visibilityRisk |-> weather.visibilityRisk, windRisk |-> weather.windRisk]

\* 1 deg = 111 km
MetresPerDegree == 111000

\* The northernmost latitude (90 degrees) and the easternmost longitude (180
\* degrees) on the plane
LatitudeLimit == 90 * MetresPerDegree

LongitudeLimit == 180 * MetresPerDegree

\* A latitude beyond the pole
BeyondPole == Num(LatitudeLimit + 2000)

\* Requests whose latitudes, when both are numbers, lie on the same side of
\* the pole (the route stays short)
AssessRequests ==
    {p \in [latStart : {Missing, Num(2000), BeyondPole},
            lonStart : {Missing, EmptyText, Num(2000)},
            latEnd : {Missing, Num(2000), BeyondPole},
            lonEnd : {Missing, Num(2000), Num(5000)}] :
        (p.latStart # Missing /\ p.latEnd # Missing) => p.latStart = p.latEnd}

\* Geopoints the stores of the handler and worker runs are drawn from: a
\* populated cell on the line from (2000, 2000) to (2000, 5000), a populated
\* cell beside it, and a weather station in the next partition
RouteCatalogue ==
    {GeoItem(1, 2000, 3000, "Population", 900, 0, 0, TRUE),
     GeoItem(2, 2400, 4000, "Population", 700, 0, 0, TRUE),
     GeoItem(3, 6000, 4000, "Weather", 0, 600, 24, TRUE)}

\* Handler entry up to the first await
AssessHandle(params) ==
    IF AssessParamMissing(params)
    THEN /\ api' = [ApiIdle EXCEPT !.pc = "responded", !.handler = "assess-route",
                                   !.params = params, !.response = Response400]
         /\ fq' = fq
    ELSE LET points == AssessPoints(params)
             hashPrefixes == getRouteGeoHashes(points[1], points[2], PARTITION_KEY_HASH_PRECISION)
         IN /\ api' = [ApiIdle EXCEPT !.pc = "awaitFetch", !.handler = "assess-route",
                                      !.params = params, !.queried = hashPrefixes]
            /\ fq' = FetchCall(hashPrefixes, FALSE)

AssessInvoke ==
    /\ api.pc = "idle"
    /\ \E params \in AssessRequests : AssessHandle(params)
    /\ UNCHANGED <<bw, spatial, engine, fc, workerVars>>

\* The adapter resolved: evaluate the straight route and respond
AssessRespond ==
    /\ api.pc = "awaitFetch"
    /\ api.handler = "assess-route"
    /\ fq.pc = "returned"
    /\ api' = [api EXCEPT !.pc = "responded",
                          !.response = AssessResponse(AssessPoints(api.params), fq.results)]
    /\ UNCHANGED <<bw, spatial, engine, fq, fc, workerVars>>

----------------------------------------------------------------------------
(* optimise-route submit handler and createRouteRecord *)

\* 60 * 60 * 24 * 7
TTL_SECONDS == 604800

\* A coordinate pair of the payload, or a point that is not there
NoPoint == [k |-> "missing", lat |-> Missing, lon |-> Missing]

PayloadPoint(lat, lon) == [k |-> "point", lat |-> lat, lon |-> lon]

\* event.body: not there, the JSON text null, text that is no JSON, or the
\* JSON text of an object
BodyAbsent == [k |-> "absent", startPoint |-> NoPoint, endPoint |-> NoPoint]

BodyNull == [k |-> "null", startPoint |-> NoPoint, endPoint |-> NoPoint]

BodyMalformed == [k |-> "malformed", startPoint |-> NoPoint, endPoint |-> NoPoint]

BodyObject(startPoint, endPoint) ==
    [k |-> "object", startPoint |-> startPoint, endPoint |-> endPoint]

\* payload.startPoint?.lat: undefined when the point or the coordinate is not there
Coordinate(point, name) == IF point.k = "missing" THEN Missing ELSE point[name]

\* [startPoint?.lat, startPoint?.lon, endPoint?.lat, endPoint?.lon].some((v) => v === undefined)
SubmitParamMissing(payload) ==
    \E point \in {payload.startPoint, payload.endPoint} :
        \E name \in {"lat", "lon"} : Coordinate(point, name).k = "missing"

\* { lat: point?.lat || 0, lon: point?.lon || 0 }
SubmitPoint(point) ==
    [lat |-> ParseOrZero(Coordinate(point, "lat")), lon |-> ParseOrZero(Coordinate(point, "lon"))]

\* The item createRouteRecord puts: key, routePoints and ttl; the fields the
\* worker sets later are absent ({})
NewRouteRecord(routeId, route, now) ==
    [PK |-> routeId, routePoints |-> route, ttl |-> (now \div 1000) + TTL_SECONDS,
     optimisedRoute |-> {}, optimisedRouteDistance |-> {}, populationImpact |-> {},
     noiseImpact |-> {}, visibilityRisk |-> {}, windRisk |-> {}]

\* What a key of the routes table holds once its item is gone: no attribute
\* but the key
NoItem(routeId) ==
    [PK |-> routeId, routePoints |-> <<>>, ttl |-> 0,
     optimisedRoute |-> {}, optimisedRouteDistance |-> {}, populationImpact |-> {},
     noiseImpact |-> {}, visibilityRisk |-> {}, windRisk |-> {}]

\* A change record of the routes table stream
StreamRecord(eventName, image) == [eventName |-> eventName, PK |-> image.PK, NewImage |-> image]

\* What the observer keeps for a route from its creation on
NewHistory(item) == [created |-> item, updates |-> 0, first |-> {}, firstRead |-> {}, lastRead |-> {}]

\* The handler threw: the invocation ends in an error, nothing is returned
Thrown(handler, params) ==
    [ApiIdle EXCEPT !.pc = "threw", !.handler = handler, !.params = params]

\* A slip that catches the rejected put and answers as if the record existed
SubmitHandleSwallowing(body, now) ==
    IF body.k \in {"malformed", "null"}
    THEN /\ api' = Thrown("optimise-route", body)
         /\ UNCHANGED <<routes, stream, hist>>
    ELSE IF SubmitParamMissing(body)
    THEN /\ api' = [ApiIdle EXCEPT !.pc = "responded", !.handler = "optimise-route",
                                   !.params = body, !.response = Response400]
         /\ UNCHANGED <<routes, stream, hist>>
    ELSE LET routeId == Len(routes) + 1
             item == NewRouteRecord(routeId,
                                    <<SubmitPoint(body.startPoint), SubmitPoint(body.endPoint)>>,
                                    now)
         IN \/ /\ routes' = Append(routes, item)
               /\ stream' = Append(stream, StreamRecord("INSERT", item))
               /\ hist' = [hist EXCEPT !.route = Append(@, NewHistory(item))]
               /\ api' = [ApiIdle EXCEPT !.pc = "responded", !.handler = "optimise-route",
                                         !.params = body, !.written = <<item>>,
                                         !.put = "resolved",
                                         !.response = [statusCode |-> 200, routeId |-> {routeId}]]
            \/ /\ api' = [ApiIdle EXCEPT !.pc = "responded", !.handler = "optimise-route",
                                         !.params = body, !.put = "rejected",
                                         !.response = [statusCode |-> 200, routeId |-> {routeId}]]
               /\ UNCHANGED <<routes, stream, hist>>

\* The whole handler. JSON.parse throws on text that is no JSON; on the body
\* null it returns null, and reading payload.startPoint then throws
SubmitHandle(body, now) ==
    IF body.k \in {"malformed", "null"}
    THEN /\ api' = Thrown("optimise-route", body)
         /\ UNCHANGED <<routes, stream, hist>>
    ELSE IF SubmitParamMissing(body)
    THEN /\ api' = [ApiIdle EXCEPT !.pc = "responded", !.handler = "optimise-route",
                                   !.params = body, !.response = Response400]
         /\ UNCHANGED <<routes, stream, hist>>
    ELSE LET routeId == Len(routes) + 1
             item == NewRouteRecord(routeId,
                                    <<SubmitPoint(body.startPoint), SubmitPoint(body.endPoint)>>,
                                    now)
         IN \/ \* await ddb.send(PutCommand) resolves
               /\ routes' = Append(routes, item)
               /\ stream' = Append(stream, StreamRecord("INSERT", item))
               /\ hist' = [hist EXCEPT !.route = Append(@, NewHistory(item))]
               /\ api' = [ApiIdle EXCEPT !.pc = "responded", !.handler = "optimise-route",
                                         !.params = body, !.written = <<item>>,
                                         !.put = "resolved",
                                         !.response = [statusCode |-> 200, routeId |-> {routeId}]]
            \/ \* it rejects: createRouteRecord and the handler throw
               /\ api' = [Thrown("optimise-route", body) EXCEPT !.put = "rejected"]
               /\ UNCHANGED <<routes, stream, hist>>

\* Date.now() at the request that follows n stored routes, in milliseconds
SubmitTime(n) == 1500 + 60000 * n

SubmitCoordinates ==
    [lat : {Missing, Num(2000), BeyondPole}, lon : {Missing, EmptyText, Num(2000), Num(5000)}]

SubmitBodies ==
    {BodyAbsent, BodyNull, BodyMalformed}
      \cup {BodyObject(s, e) :
              s, e \in {NoPoint} \cup {PayloadPoint(c.lat, c.lon) : c \in SubmitCoordinates}}

SubmitInvoke ==
    /\ api.pc = "idle"
    /\ \E body \in SubmitBodies : SubmitHandle(body, SubmitTime(Len(routes)))
    /\ UNCHANGED <<bw, spatial, engine, fq, fc, esm, run, sink>>

ApiInit ==
    /\ bw = [pc |-> "idle"]
    /\ spatial \in SUBSET RouteCatalogue
    /\ fq = FetchIdle
    /\ api = ApiIdle
    /\ fc = CountIdle
    /\ WorkerIdle
    /\ engine = EngineIdle

SpecApi ==
    ApiInit /\ [][BBoxInvoke \/ AssessInvoke \/ SubmitInvoke \/ FetchSettle
                    \/ BBoxRespond \/ AssessRespond]_vars

\* Is a coordinate parameter of the request missing?
ParameterMissing(handler, params) ==
    \/ handler = "get-bounding-box" /\ BBoxParamMissing(params)
    \/ handler = "assess-route" /\ AssessParamMissing(params)
    \/ handler = "optimise-route" /\ params.k # "malformed" /\ SubmitParamMissing(params)

\* C10: a request handler given a request with a missing coordinate
\* parameter returns a 400 result, and has passed no prefix to the spatial
\* store adapter and written no item to the routes table
C10_MissingParameter400 ==
    (api.pc \in {"responded", "threw"} /\ ParameterMissing(api.handler, api.params)) =>
        /\ api.pc = "responded"
        /\ api.response.statusCode = 400
        /\ api.queried = <<>>
        /\ api.written = <<>>
        /\ routes = <<>>

\* Is a coordinate there, yet no number (the empty text) or a number outside
\* its range: latitude within 90 degrees, longitude within 180 degrees?
CoordinateInvalid(p, limit) ==
    \/ p.k = "empty"
    \/ p.k = "num" /\ (p.v < -limit \/ p.v > limit)

ParameterInvalid(handler, params) ==
    \/ /\ handler = "assess-route"
       /\ \/ CoordinateInvalid(params.latStart, LatitudeLimit)
          \/ CoordinateInvalid(params.lonStart, LongitudeLimit)
          \/ CoordinateInvalid(params.latEnd, LatitudeLimit)
          \/ CoordinateInvalid(params.lonEnd, LongitudeLimit)
    \/ /\ handler = "optimise-route"
       /\ params.k = "object"
       /\ \E point \in {params.startPoint, params.endPoint} :
            \/ CoordinateInvalid(Coordinate(point, "lat"), LatitudeLimit)
            \/ CoordinateInvalid(Coordinate(point, "lon"), LongitudeLimit)

\* C11: assess and submit, given a request in which a coordinate is there
\* but unparseable or outside its range, return a 400 result, and have
\* passed no prefix to the spatial store adapter and created no route record
C11_InvalidInput400 ==
    (api.pc # "idle" /\ ParameterInvalid(api.handler, api.params)) =>
        /\ api.pc = "responded"
        /\ api.response.statusCode = 400
        /\ api.queried = <<>>
        /\ api.written = <<>>
        /\ routes = <<>>

----------------------------------------------------------------------------
(* process-new-route worker, driven by the stream of the routes table *)

\* retryAttempts: 2
retryAttempts == 2

\* A slip that lets every change record through
EventFilterAny(record) == TRUE

\* filters: [FilterCriteria.filter({ eventName: FilterRule.isEqual('INSERT') })]
EventFilter(record) == record.eventName = "INSERT"

\* Steps 3 and 4 of the handler; the one-decimal figures are in tenths
WorkerOutput(startPoint, endPoint, results) ==
    With(findOptimisedRoute(startPoint, endPoint, results), LAMBDA optimisedRoute :
    With(getPointsNearRoute(optimisedRoute, results), LAMBDA routePointsOfInterest :
    With(assessPopulationImpact(routePointsOfInterest), LAMBDA populationImpact :
    With(assessWeatherImpact(routePointsOfInterest), LAMBDA weather :
        [optimisedRoute |-> optimisedRoute,
         routeDistance |-> getRouteDistance(optimisedRoute),
         populationImpact |-> populationImpact,
         noiseImpact |-> assessNoiseImpact(populationImpact),
         visibilityRisk |-> weather.visibilityRisk, windRisk |-> weather.windRisk]))))

\* A slip that adds the new route to the one already stored
UpdateItemAppending(record, out) ==
    [record EXCEPT !.optimisedRoute = IF @ = {} THEN {out.optimisedRoute}
                                      ELSE {(CHOOSE r \in @ : TRUE) \o out.optimisedRoute},
                   !.optimisedRouteDistance = {out.routeDistance},
                   !.populationImpact = {out.populationImpact},
                   !.noiseImpact = {out.noiseImpact},
                   !.visibilityRisk = out.visibilityRisk,
                   !.windRisk = out.windRisk]

\* UpdateExpression SET optimisedRoute = ..., optimisedRouteDistance = ...,
\* populationImpact = ..., noiseImpact = ..., visibilityRisk = ..., windRisk = ...
UpdateItem(record, out) ==
    [record EXCEPT !.optimisedRoute = {out.optimisedRoute},
                   !.optimisedRouteDistance = {out.routeDistance},
                   !.populationImpact = {out.populationImpact},
                   !.noiseImpact = {out.noiseImpact},
                   !.visibilityRisk = out.visibilityRisk,
                   !.windRisk = out.windRisk]

\* How await ddb.send(UpdateCommand) can end. The document client leaves out
\* expression values that are undefined, and the store rejects an update
\* expression that names a value it was not given
UpdateOutcomes(out) ==
    IF out.visibilityRisk = {} \/ out.windRisk = {} THEN {"rejected"} ELSE {"ok", "rejected"}

\* The event posted to channel default/routes
RouteOptimisedEvent(routeRecord, out) ==
    [channel |-> "default/routes", type |-> "routeOptimised", id |-> routeRecord.PK,
     route |-> out.optimisedRoute, routeDistance |-> out.routeDistance,
     populationImpact |-> out.populationImpact, noiseImpactScore |-> {out.noiseImpact},
     visibilityRisk |-> out.visibilityRisk, windRisk |-> out.windRisk]

\* The invocation is over: it resolved ("done") or it rejected or was ended
\* ("failed"). What is kept is the event, whether the update was persisted,
\* how the post ended and where a timeout struck.
Ended(r, pc, publish, deadline) ==
    [RunIdle EXCEPT !.pc = pc, !.pos = r.pos, !.eventName = r.eventName,
                    !.routeRecord = r.routeRecord, !.startPoint = r.startPoint,
                    !.endPoint = r.endPoint, !.updated = r.updated,
                    !.publish = publish, !.deadline = deadline]

\* Handler entry up to the first await: the record is parsed, the corridor
\* prefixes are computed and the adapter is called
WorkerHandle(record, pos) ==
    LET routeRecord == record.NewImage
        startPoint == [lat |-> routeRecord.routePoints[1].lat, lon |-> routeRecord.routePoints[1].lon]
        endPoint == [lat |-> routeRecord.routePoints[2].lat, lon |-> routeRecord.routePoints[2].lon]
        hashPrefixes == getRouteGeoHashes(startPoint, endPoint, PARTITION_KEY_HASH_PRECISION)
    IN IF routeRecord.routePoints = <<>>
       THEN \* routeRecord.routePoints[0] of an image without routePoints throws
            /\ run' = [RunIdle EXCEPT !.pc = "failed", !.pos = pos, !.eventName = record.eventName,
                                      !.routeRecord = routeRecord]
            /\ fq' = fq
       ELSE /\ run' = [RunIdle EXCEPT !.pc = "awaitFetch", !.pos = pos, !.eventName = record.eventName,
                                      !.routeRecord = routeRecord,
                                      !.startPoint = startPoint, !.endPoint = endPoint]
            /\ fq' = FetchCall(hashPrefixes, FALSE)

\* The event source mapping passes over a record its filter rejects
EsmSkip ==
    /\ run.pc = "idle"
    /\ esm.pos <= Len(stream)
    /\ ~EventFilter(stream[esm.pos])
    /\ esm' = [esm EXCEPT !.pos = @ + 1]
    /\ UNCHANGED <<bw, spatial, engine, fq, api, fc, routes, stream, run, sink, hist>>

\* It invokes the function with the record at its position (batchSize 1):
\* the first time, or again after a failed invocation
EsmInvoke ==
    /\ run.pc \in {"idle", "failed"}
    /\ esm.pos <= Len(stream)
    /\ EventFilter(stream[esm.pos])
    /\ esm.attempts <= retryAttempts
    /\ WorkerHandle(stream[esm.pos], esm.pos)
    /\ esm' = [esm EXCEPT !.attempts = @ + 1]
    /\ hist' = [hist EXCEPT !.invoked = @ \cup {esm.pos}]
    /\ UNCHANGED <<bw, spatial, engine, api, fc, routes, stream, sink>>

\* The invocation succeeded: on to the next record
EsmComplete ==
    /\ run.pc = "done"
    /\ esm' = [pos |-> esm.pos + 1, attempts |-> 0]
    /\ run' = RunIdle
    /\ UNCHANGED <<bw, spatial, engine, fq, api, fc, routes, stream, sink, hist>>

\* The invocation failed and the record is given up: the retries are used
\* up, or the record is older than maxRecordAge
EsmDiscard ==
    /\ run.pc = "failed"
    /\ esm' = [pos |-> esm.pos + 1, attempts |-> 0]
    /\ run' = RunIdle
    /\ UNCHANGED <<bw, spatial, engine, fq, api, fc, routes, stream, sink, hist>>

\* await fetchGeoHashItemsFromDynamoDB resolved: findOptimisedRoute starts
WorkerSearch ==
    /\ run.pc = "awaitFetch"
    /\ fq.pc = "returned"
    /\ run' = [run EXCEPT !.pc = "searching", !.results = fq.results]
    /\ fq' = FetchIdle
    /\ UNCHANGED <<bw, spatial, engine, api, fc, routes, stream, esm, sink, hist>>

\* The search returned, the route is evaluated and the UpdateCommand is sent
WorkerEvaluate ==
    /\ run.pc = "searching"
    /\ run' = [run EXCEPT !.pc = "awaitUpdate",
                          !.out = WorkerOutput(run.startPoint, run.endPoint, run.results)]
    /\ UNCHANGED <<bw, spatial, engine, fq, api, fc, routes, stream, esm, sink, hist>>

\* await ddb.send(UpdateCommand) settles. An accepted update sets the six
\* fields of the item with the key of the event; the stream gets a MODIFY
\* record when that changed the item. Then the event is posted.
WorkerUpdate ==
    /\ run.pc = "awaitUpdate"
    /\ \E outcome \in UpdateOutcomes(run.out) :
         IF outcome = "ok"
         THEN LET id == run.routeRecord.PK
                  item == UpdateItem(routes[id], run.out)
                  h == hist.route[id]
              IN /\ routes' = [routes EXCEPT ![id] = item]
                 /\ stream' = IF item = routes[id] THEN stream
                              ELSE Append(stream, StreamRecord(IF routes[id] = NoItem(id)
                                                               THEN "INSERT" ELSE "MODIFY", item))
                 /\ hist' = [hist EXCEPT !.route[id] =
                               [h EXCEPT !.updates = @ + 1,
                                         !.first = IF h.updates = 0 THEN {item} ELSE @,
                                         !.firstRead = IF h.updates = 0 THEN {run.results} ELSE @,
                                         !.lastRead = {run.results}]]
                 /\ run' = [run EXCEPT !.pc = "awaitPublish", !.updated = TRUE]
         ELSE /\ run' = Ended(run, "failed", "none", "none")
              /\ UNCHANGED <<routes, stream, hist>>
    /\ UNCHANGED <<bw, spatial, engine, fq, api, fc, esm, sink>>

\* A slip that posts the event without awaiting the update
WorkerPublishUnawaited ==
    /\ run.pc \in {"awaitUpdate", "awaitPublish"}
    /\ \E outcome \in {"ok", "notOk", "rejected"} :
         /\ run' = Ended(run, IF outcome = "rejected" THEN "failed" ELSE "done", outcome, "none")
         /\ sink' = IF outcome = "ok"
                    THEN Append(sink, RouteOptimisedEvent(run.routeRecord, run.out))
                    ELSE sink
    /\ UNCHANGED <<bw, spatial, engine, fq, api, fc, routes, stream, esm, hist>>

\* await fetch(POST) settles: the sink accepts the event, answers with a
\* status that is not OK (logged), or the request itself rejects, which
\* nothing catches
WorkerPublish ==
    /\ run.pc = "awaitPublish"
    /\ \E outcome \in {"ok", "notOk", "rejected"} :
         /\ run' = Ended(run, IF outcome = "rejected" THEN "failed" ELSE "done", outcome, "none")
         /\ sink' = IF outcome = "ok"
                    THEN Append(sink, RouteOptimisedEvent(run.routeRecord, run.out))
                    ELSE sink
    /\ UNCHANGED <<bw, spatial, engine, fq, api, fc, routes, stream, esm, hist>>

\* timeout: Duration.seconds(300): the invocation is ended where it stands
WorkerTimeout ==
    /\ run.pc \in {"awaitFetch", "searching", "awaitUpdate", "awaitPublish"}
    /\ run' = Ended(run, "failed", "none", run.pc)
    /\ fq' = FetchIdle
    /\ UNCHANGED <<bw, spatial, engine, api, fc, routes, stream, esm, sink, hist>>

\* Routes submitted in the worker runs: along the populated line, and of no
\* length
MaxRoutes == 1

RouteBodies ==
    {BodyObject(PayloadPoint(Num(2000), Num(2000)), PayloadPoint(Num(2000), Num(5000))),
     BodyObject(PayloadPoint(Num(2000), Num(2000)), PayloadPoint(Num(2000), Num(2000)))}

\* The spatial stores of the worker runs: empty, the populated cell on the
\* line with the weather station, and the whole catalogue
RouteStores ==
    {{}, {it \in RouteCatalogue : it.id \in {1, 3}}, RouteCatalogue}

RouteSubmit ==
    /\ Len(routes) < MaxRoutes
    /\ \E body \in RouteBodies : SubmitHandle(body, SubmitTime(Len(routes)))
    /\ UNCHANGED <<bw, spatial, engine, fq, fc, esm, run, sink>>

Init ==
    /\ bw = [pc |-> "idle"]
    /\ spatial \in RouteStores
    /\ fq = FetchIdle
    /\ api = ApiIdle
    /\ fc = CountIdle
    /\ WorkerIdle
    /\ engine = EngineIdle

Next ==
    \/ RouteSubmit
    \/ EsmSkip
    \/ EsmInvoke
    \/ EsmComplete
    \/ EsmDiscard
    \/ FetchSettle
    \/ WorkerSearch
    \/ WorkerEvaluate
    \/ WorkerUpdate
    \/ WorkerPublish
    \/ WorkerTimeout

Spec == Init /\ [][Next]_vars

\* The item of a route leaves the table: its ttl passed (the table deletes
\* by the attribute ttl), or a client of the table deleted it
RouteRemove ==
    /\ \E id \in 1..Len(routes) :
         /\ routes[id] # NoItem(id)
         /\ routes' = [routes EXCEPT ![id] = NoItem(id)]
         /\ stream' = Append(stream, StreamRecord("REMOVE", NoItem(id)))
    /\ UNCHANGED <<bw, spatial, engine, fq, api, fc, esm, run, sink, hist>>

\* The worker runs over a routes table whose items can go
SpecRemoval == Init /\ [][Next \/ RouteRemove]_vars

\* The store answered every query of the call
FetchAnswered ==
    /\ FetchSettle
    /\ Range(fq'.results) = {item \in spatial : item.PK \in Range(fq.geoHashes)}

\* The store accepted the update, unless the command could not be sent
UpdateAnswered ==
    /\ WorkerUpdate
    /\ "ok" \in UpdateOutcomes(run.out) => run'.updated

\* The sink accepted the event
PublishAccepted ==
    /\ WorkerPublish
    /\ run'.publish = "ok"

\* The steps of the worker when the stream delivers, the store and the sink
\* answer every call with success and no invocation runs into its timeout
LiveNext ==
    \/ RouteSubmit
    \/ EsmSkip
    \/ EsmInvoke
    \/ EsmComplete
    \/ EsmDiscard
    \/ FetchAnswered
    \/ WorkerSearch
    \/ WorkerEvaluate
    \/ UpdateAnswered
    \/ PublishAccepted

\* Every step that can be taken is taken in the end: the stream delivers, the
\* function runs on and the calls return
SpecLive == Init /\ [][LiveNext]_vars /\ WF_vars(LiveNext)

\* C1: only the INSERT record of a route starts a run of the worker. Every
\* stream record the function was invoked with is an INSERT record, so is
\* the record of the run in progress, and no MODIFY record (what the
\* worker's own update leaves in the stream) was ever handed to the function
C1_OnlyInsertStartsRun ==
    /\ \A p \in hist.invoked : stream[p].eventName = "INSERT"
    /\ \A p \in 1..Len(stream) : stream[p].eventName = "MODIFY" => p \notin hist.invoked
    /\ run.pc # "idle" => run.eventName = "INSERT" /\ stream[run.pos].eventName = "INSERT"

\* The worker's update left a MODIFY record and the event source mapping has
\* gone past it without a run
C1_Witness ==
    \E p \in 1..Len(stream) :
        /\ stream[p].eventName = "MODIFY"
        /\ esm.pos > p
        /\ p \notin hist.invoked
        /\ hist.route[stream[p].PK].updates >= 1

\* C2: a RouteRecord is created with routePoints, key and ttl only, and over
\* all deliveries and retries of its INSERT event the worker's update is
\* applied to it no more than once
C2_UpdatedExactlyOnce ==
    \A id \in DOMAIN routes :
        /\ LET created == hist.route[id].created
           IN /\ created.PK = id
              /\ created.routePoints = routes[id].routePoints
              /\ created.ttl = routes[id].ttl
              /\ \A field \in {"optimisedRoute", "optimisedRouteDistance", "populationImpact",
                                "noiseImpact", "visibilityRisk", "windRisk"} : created[field] = {}
        /\ hist.route[id].updates = 0 => routes[id] = hist.route[id].created
        /\ hist.route[id].updates <= 1

C4_PublishFailureOnlyLogged ==
    run.publish \in {"notOk", "rejected"} =>
        /\ run.pc = "done"
        /\ hist.route[run.routeRecord.PK].updates >= 1

\* C5: a run ended by the 5 minute timeout while findOptimisedRoute had not
\* returned leaves the record updated with the straight line [start, end]
C5_DeadlineFallback ==
    (run.pc = "failed" /\ run.deadline = "searching") =>
        routes[run.routeRecord.PK].optimisedRoute = {<<run.startPoint, run.endPoint>>}

\* C12: when the put of the new route record is rejected, the submit handler
\* ends in an error: it returns no result (no success, no routeId), the routes
\* table holds no record for the request and its stream no change record, so
\* no worker run is started for it
C12_PutFailureSurfaces ==
    [][(api'.put = "rejected" /\ api' # api) =>
          /\ api'.pc = "threw"
          /\ api'.response = <<>>
          /\ routes' = routes
          /\ stream' = stream
          /\ run' = run]_vars

\* A submit whose put was rejected: nothing stored, nothing to work on
C12_Witness ==
    /\ api.put = "rejected"
    /\ api.pc = "threw"
    /\ routes = <<>>
    /\ stream = <<>>
    /\ run.pc = "idle"

----------------------------------------------------------------------------
(* Route engine: getRouteGeoHashes called on its own *)

\* Routes run from one of two starts to an end up to MaxCorridorSpan metres
\* north and east of the south-west corner, under four buffers
MaxCorridorSpan == 9400

CorridorStarts == {[lat |-> 2000, lon |-> 2000], [lat |-> 4600, lon |-> 2300]}

CorridorEnds ==
    {e \in [lat : {2000, 4400, 4600, 5200, 7300, 9400},
            lon : {2000, 2600, 4800, 6100, 9400}] :
        e.lat <= MaxCorridorSpan /\ e.lon <= MaxCorridorSpan}

CorridorBuffers == {500, 1000, 1500, bufferMeters}

\* The points the corridor is probed with: a grid of 200 m
CorridorProbes ==
    {[lat |-> 200 * i, lon |-> 200 * j] : i, j \in 0..((MaxCorridorSpan + 1000) \div 200)}

CorridorCall ==
    /\ engine.pc = "idle"
    /\ \E start \in CorridorStarts, end \in CorridorEnds, buffer \in CorridorBuffers :
         engine' = [pc |-> "returned", fn |-> "getRouteGeoHashes",
                    start |-> start, end |-> end, buffer |-> buffer,
                    hashes |-> getRouteGeoHashesWith(start, end, PARTITION_KEY_HASH_PRECISION,
                                                     stepMeters, buffer)]
    /\ UNCHANGED <<bw, spatial, fq, api, fc, workerVars>>

CorridorInit ==
    /\ bw = [pc |-> "idle"]
    /\ spatial = {}
    /\ fq = FetchIdle
    /\ api = ApiIdle
    /\ fc = CountIdle
    /\ WorkerIdle
    /\ engine = EngineIdle

SpecCorridor == CorridorInit /\ [][CorridorCall]_vars

\* The probes within 500 m of the route whose partition cell the call left out
CorridorMissed ==
    {p \in CorridorProbes :
        /\ \E d \in perpendicularDistance(p, engine.start, engine.end) : d <= 500
        /\ geohash_encode(p.lat, p.lon, PARTITION_KEY_HASH_PRECISION) \notin Range(engine.hashes)}

\* C13 as stated: whatever the buffer, from 500 m on, the partition cell of
\* every point within 500 m of the segment start-end is among the prefixes
C13_CorridorCoversFrom500 ==
    (engine.pc = "returned" /\ engine.buffer >= 500) => CorridorMissed = {}

\* C13, amended: with a buffer of at least the sampling step plus 500 m (the
\* default 10000 m is one), the partition cell of every point within 500 m of
\* the segment start-end is among the prefixes
C13_CorridorCovers ==
    (engine.pc = "returned" /\ engine.buffer >= stepMeters + 500) => CorridorMissed = {}

\* A diagonal route under the default buffer with a probe within 500 m of it
\* in another cell than both ends
C13_Witness ==
    /\ engine.pc = "returned"
    /\ engine.buffer = bufferMeters
    /\ engine.start = [lat |-> 2000, lon |-> 2000]
    /\ engine.end = [lat |-> 7300, lon |-> 9400]
    /\ \E p \in CorridorProbes :
         /\ \E d \in perpendicularDistance(p, engine.start, engine.end) : d <= 500
         /\ geohash_encode(p.lat, p.lon, PARTITION_KEY_HASH_PRECISION)
              \notin {geohash_encode(engine.start.lat, engine.start.lon, PARTITION_KEY_HASH_PRECISION),
                       geohash_encode(engine.end.lat, engine.end.lon, PARTITION_KEY_HASH_PRECISION)}
         /\ geohash_encode(p.lat, p.lon, PARTITION_KEY_HASH_PRECISION) \in Range(engine.hashes)

----------------------------------------------------------------------------
(* Route engine: findOptimisedRoute called on its own, one iteration of its *)
(* loop at a time; likewise the earlier step-by-step optimiser             *)

\* Routes start at one point and are at most MaxSearchLength metres long
MaxSearchLength == 6100

SearchStarts == {[lat |-> 2000, lon |-> 2000]}

SearchEnds ==
    {e \in [lat : {2000, 2400, 4000}, lon : {2000, 2800, 5000, 6500, 8000}] :
        \A start \in SearchStarts : getDistance(start, e) <= MaxSearchLength}

\* Geopoints of a search: the three of the route runs and a populated cell
\* further along the line
SearchCatalogue ==
    RouteCatalogue \cup {GeoItem(4, 2000, 4000, "Population", 500, 0, 0, TRUE)}

\* A populated cell on the line 800 m after the start and a smaller one
\* 600 m north of the line
DetourCatalogue ==
    {GeoItem(5, 2000, 2800, "Population", 900, 0, 0, TRUE),
     GeoItem(6, 2600, 4000, "Population", 100, 0, 0, TRUE)}

\* A small populated cell north of the first step: its penalty makes up for
\* the length by which one neighbour of the start is nearer the end than another
TieCatalogue ==
    {GeoItem(8, 2300, 2700, "Population", 19, 0, 0, TRUE)}

SearchData ==
    {SortById(S) : S \in SUBSET SearchCatalogue} \cup {SortById(S) : S \in SUBSET DetourCatalogue}
        \cup {SortById(S) : S \in SUBSET TieCatalogue}

\* const openSet = []; openSet.push({ ...start, g: 0, f: heuristic(start) })
SearchCall ==
    /\ engine.pc = "idle"
    /\ \E start \in SearchStarts, end \in SearchEnds, spatialData \in SearchData :
         engine' = [pc |-> "searching", fn |-> "findOptimisedRoute",
                    start |-> start, end |-> end, spatialData |-> spatialData,
                    openSet |-> <<[lat |-> start.lat, lon |-> start.lon, g |-> 0,
                                   f |-> getDistance(start, end), path |-> <<start>>]>>,
                    closedSet |-> {}, expansions |-> 0, current |-> {},
                    path |-> <<>>, cost |-> {}, exit |-> "none"]
    /\ UNCHANGED <<bw, spatial, fq, api, fc, workerVars>>

\* A slip that reads the best node without taking it off the open set
SearchIteratePeeking ==
    /\ engine.pc = "searching"
    /\ engine.fn = "findOptimisedRoute"
    /\ IF engine.openSet = <<>>
       THEN engine' = [engine EXCEPT !.pc = "returned", !.exit = "fallback",
                                     !.path = <<engine.start, engine.end>>]
       ELSE \E sorted \in {SortByF(engine.openSet)} : \E current \in {Head(sorted)} :
            LET key == nodeKey(current)
                closed == engine.closedSet \cup {key}
            IN IF key \in engine.closedSet
               THEN engine' = [engine EXCEPT !.openSet = sorted]
               ELSE IF getDistance(current, engine.end) <= STEP_DISTANCE
               THEN engine' = [engine EXCEPT !.pc = "returned", !.exit = "goal",
                                             !.openSet = sorted, !.closedSet = closed,
                                             !.path = Append(current.path, engine.end),
                                             !.cost = {current.g}]
               ELSE engine' = [engine EXCEPT
                                 !.openSet = sorted \o ExpandNeighbors(engine.start, engine.end,
                                                                       engine.spatialData,
                                                                       current, closed),
                                 !.closedSet = closed,
                                 !.expansions = @ + 1]
    /\ UNCHANGED <<bw, spatial, fq, api, fc, workerVars>>

\* A slip that returns the reconstructed path without pushing the end
SearchIterateNoEnd ==
    /\ engine.pc = "searching"
    /\ engine.fn = "findOptimisedRoute"
    /\ IF engine.openSet = <<>>
       THEN engine' = [engine EXCEPT !.pc = "returned", !.exit = "fallback",
                                     !.path = <<engine.start, engine.end>>]
       ELSE \E sorted \in {SortByF(engine.openSet)} : \E current \in {Head(sorted)} :
            LET key == nodeKey(current)
                closed == engine.closedSet \cup {key}
            IN IF key \in engine.closedSet
               THEN engine' = [engine EXCEPT !.openSet = Tail(sorted)]
               ELSE IF getDistance(current, engine.end) <= STEP_DISTANCE
               THEN engine' = [engine EXCEPT !.pc = "returned", !.exit = "goal",
                                             !.openSet = Tail(sorted), !.closedSet = closed,
                                             !.path = current.path,
                                             !.cost = {current.g}]
               ELSE engine' = [engine EXCEPT
                                 !.openSet = Tail(sorted) \o ExpandNeighbors(engine.start, engine.end,
                                                                             engine.spatialData,
                                                                             current, closed),
                                 !.closedSet = closed,
                                 !.expansions = @ + 1]
    /\ UNCHANGED <<bw, spatial, fq, api, fc, workerVars>>

\* One pass of while (openSet.length) { ... }, or, the open set being empty,
\* the return of the straight line after it
SearchIterate ==
    /\ engine.pc = "searching"
    /\ engine.fn = "findOptimisedRoute"
    /\ IF engine.openSet = <<>>
       THEN engine' = [engine EXCEPT !.pc = "returned", !.exit = "fallback",
                                     !.path = <<engine.start, engine.end>>]
       ELSE \E sorted \in {SortByF(engine.openSet)} : \E current \in {Head(sorted)} :
            LET key == nodeKey(current)
                closed == engine.closedSet \cup {key}
            IN IF key \in engine.closedSet
               THEN engine' = [engine EXCEPT !.openSet = Tail(sorted), !.current = {current}]
               ELSE IF getDistance(current, engine.end) <= STEP_DISTANCE
               THEN engine' = [engine EXCEPT !.pc = "returned", !.exit = "goal",
                                             !.openSet = Tail(sorted), !.closedSet = closed,
                                             !.current = {current},
                                             !.path = Append(current.path, engine.end),
                                             !.cost = {current.g}]
               ELSE engine' = [engine EXCEPT
                                 !.openSet = Tail(sorted) \o ExpandNeighbors(engine.start, engine.end,
                                                                             engine.spatialData,
                                                                             current, closed),
                                 !.closedSet = closed,
                                 !.current = {current},
                                 !.expansions = @ + 1]
    /\ UNCHANGED <<bw, spatial, fq, api, fc, workerVars>>

\* The step-by-step optimiser: const route = [startPoint]; let currentPoint = startPoint
StepwiseCall ==
    /\ engine.pc = "idle"
    /\ \E start \in SearchStarts, end \in SearchEnds, spatialData \in SearchData :
         engine' = [pc |-> "searching", fn |-> "findOptimisedRoute (stepwise)",
                    start |-> start, end |-> end, spatialData |-> spatialData,
                    route |-> <<start>>, currentPoint |-> start,
                    path |-> <<>>, exit |-> "none"]
    /\ UNCHANGED <<bw, spatial, fq, api, fc, workerVars>>

\* The for loop over the fan: the first candidate of the least population
bestNextPoint(currentPoint, endPoint, spatialData) ==
    LET isPopulation(p) == p.type = "Population"
        population(p) == p.population
        populationImpact(nextPoint) ==
            SumSeq(Map(SelectSeq(getPointsNearRouteSegment(currentPoint, nextPoint, spatialData),
                                 isPopulation),
                       population))
        candidate(directBearing, i) ==
            With(computeDestinationPoint(currentPoint, STEP_DISTANCE, FanBearing(directBearing, i)),
                 LAMBDA nextPoint : [i |-> i, nextPoint |-> nextPoint,
                                     populationImpact |-> populationImpact(nextPoint)])
    IN With(getRhumbLineBearing(currentPoint, endPoint), LAMBDA directBearing :
          With({candidate(directBearing, i) : i \in 0..(SEARCH_ITERATIONS - 1)}, LAMBDA candidates :
             (CHOOSE best \in candidates :
                 \A other \in candidates :
                     \/ other.populationImpact > best.populationImpact
                     \/ other.populationImpact = best.populationImpact /\ other.i >= best.i).nextPoint))

\* One pass of while (getDistance(currentPoint, endPoint) > STEP_DISTANCE) { ... },
\* or the push of the end point and the return after it
StepwiseIterate ==
    /\ engine.pc = "searching"
    /\ engine.fn = "findOptimisedRoute (stepwise)"
    /\ IF getDistance(engine.currentPoint, engine.end) > STEP_DISTANCE
       THEN LET next == bestNextPoint(engine.currentPoint, engine.end, engine.spatialData)
            IN engine' = [engine EXCEPT !.route = Append(@, next), !.currentPoint = next]
       ELSE engine' = [engine EXCEPT !.pc = "returned", !.exit = "goal",
                                     !.path = Append(engine.route, engine.end)]
    /\ UNCHANGED <<bw, spatial, fq, api, fc, workerVars>>

SearchNext == SearchCall \/ SearchIterate \/ StepwiseCall \/ StepwiseIterate

SpecSearch == CorridorInit /\ [][SearchNext]_vars

\* The loops run whenever they can
SpecSearchLive ==
    CorridorInit /\ [][SearchNext]_vars /\ WF_vars(SearchIterate) /\ WF_vars(StepwiseIterate)

\* The nodes of the returned path between its two ends
InnerNodes == {engine.path[k] : k \in 2..(Len(engine.path) - 1)}

\* C14: every node of the path findOptimisedRoute returns, other than its two
\* ends, lies within 0.20 times distance(start, end) of the segment start-end
C14_DeviationBound ==
    (engine.pc = "returned" /\ engine.fn = "findOptimisedRoute") =>
        \A node \in InnerNodes :
            \E d \in perpendicularDistance(node, engine.start, engine.end) :
                5 * d <= getDistance(engine.start, engine.end)

\* A returned path that leaves the straight line around populated cells and
\* comes within 100 m of the bound
C14_Witness ==
    /\ engine.pc = "returned"
    /\ engine.fn = "findOptimisedRoute"
    /\ engine.exit = "goal"
    /\ \E node \in InnerNodes :
         \E d \in perpendicularDistance(node, engine.start, engine.end) :
             /\ 5 * d <= getDistance(engine.start, engine.end)
             /\ 5 * (d + 100) > getDistance(engine.start, engine.end)

\* C15: every call of the optimiser returns: its loop cannot go on forever
C15_SearchTerminates == (engine.pc = "searching") ~> (engine.pc = "returned")

\* A search that returned after expanding at least three nodes, the open set
\* having been refilled each time
C15_Witness ==
    /\ engine.pc = "returned"
    /\ engine.fn = "findOptimisedRoute"
    /\ engine.expansions >= 3
    /\ Len(engine.openSet) > SEARCH_ITERATIONS

\* Step 4 of the worker for a returned route: the populationImpact it reports
ReportedPopulationImpact(optimisedRoute, results) ==
    assessPopulationImpact(getPointsNearRoute(optimisedRoute, results))

\* Step 4 of the handler around the step-by-step optimiser: the rounded sum,
\* over the segments of the route, of the population near each
StepwisePopulationImpact(optimisedRoute, results) ==
    LET isPopulation(p) == p.type = "Population"
        population(p) == p.population
        segmentPopulation(i) ==
            SumSeq(Map(SelectSeq(getPointsNearRouteSegment(optimisedRoute[i], optimisedRoute[i + 1],
                                                           results),
                                 isPopulation),
                       population))
    IN SumSeq([i \in 1..(Len(optimisedRoute) - 1) |-> segmentPopulation(i)])

NoPopulation(results) == \A i \in 1..Len(results) : results[i].type # "Population"

\* C16: given geopoints without a population point, the optimiser returns a
\* path of at least 2 points, the cost so far of the node it stopped at is 0,
\* and the populationImpact reported for the path is 0
C16_NoPopulationNoCost ==
    (engine.pc = "returned" /\ NoPopulation(engine.spatialData)) =>
        /\ Len(engine.path) >= 2
        /\ engine.fn = "findOptimisedRoute" =>
              /\ \A g \in engine.cost : g = 0
              /\ ReportedPopulationImpact(engine.path, engine.spatialData) = 0
        /\ engine.fn = "findOptimisedRoute (stepwise)" =>
              StepwisePopulationImpact(engine.path, engine.spatialData) = 0

\* A search over a weather station alone that expanded nodes on its way
C16_Witness ==
    /\ engine.pc = "returned"
    /\ engine.fn = "findOptimisedRoute"
    /\ engine.spatialData # <<>>
    /\ NoPopulation(engine.spatialData)
    /\ engine.cost = {0}
    /\ Len(engine.path) >= 4

PopulationOnLine(start, end, results) ==
    \E i \in 1..Len(results) :
        /\ results[i].type = "Population"
        /\ results[i].population > 0
        /\ getDistanceFromLine(results[i], start, end) = {0}

\* The populationImpact the assess handler reports for the route [start, end]
StraightPopulationImpact(start, end, results) ==
    assessPopulationImpact(getPointsNearRoute(<<start, end>>, results))

\* C20: with a populated cell on the straight line from start to end, the
\* populationImpact reported for the optimised route is at most the
\* populationImpact of the straight route over the same geopoints
C20_OptimisedNoWorse ==
    (/\ engine.pc = "returned"
     /\ engine.fn = "findOptimisedRoute"
     /\ PopulationOnLine(engine.start, engine.end, engine.spatialData)) =>
        ReportedPopulationImpact(engine.path, engine.spatialData)
            <= StraightPopulationImpact(engine.start, engine.end, engine.spatialData)

\* C27: the write-back of the worker changes the routes table only at the
\* key of the event, only where that key holds an item, and leaves the
\* routePoints and the ttl of the item as they are; where the key holds no
\* item the table stays as it is
C27_WriteBackNeverCreates ==
    [][(run.pc = "awaitUpdate" /\ run'.pc = "awaitPublish") =>
          LET id == run.routeRecord.PK
          IN IF routes[id] = NoItem(id)
             THEN routes' = routes
             ELSE /\ Len(routes') = Len(routes)
                  /\ \A other \in (1..Len(routes)) \ {id} : routes'[other] = routes[other]
                  /\ routes'[id].PK = routes[id].PK
                  /\ routes'[id].routePoints = routes[id].routePoints
                  /\ routes'[id].ttl = routes[id].ttl]_vars

\* C28: once a submit has stored a route, in the end its record carries
\* optimisedRoute and a routeOptimised event with its id has been posted to
\* the channel default/routes
C28_SubmittedEventuallyOptimised ==
    \A id \in 1..MaxRoutes :
        (Len(routes) >= id) ~>
            (/\ Len(routes) >= id
             /\ routes[id].optimisedRoute # {}
             /\ \E i \in 1..Len(sink) :
                   /\ sink[i].id = id
                   /\ sink[i].type = "routeOptimised"
                   /\ sink[i].channel = "default/routes")

\* C26: the heuristic of the start node, its distance to the end, is at most
\* the cost of the path the search returns, which is a fan path within the
\* deviation bound from the start to a node within STEP_DISTANCE of the end
\* and so costs at least the cheapest such path
C26_HeuristicAdmissible ==
    (engine.pc = "returned" /\ engine.fn = "findOptimisedRoute" /\ engine.exit = "goal") =>
        \A g \in engine.cost : getDistance(engine.start, engine.end) <= g

\* C23: the node a pass of the search removes has the lowest f of the open
\* set; of the open nodes of that f it has the lowest g; and of those of that
\* f and g it is the one that was inserted first (the array keeps nodes of
\* equal f in the order of their insertion)
C23_PriorityOrder ==
    [][(engine.pc = "searching" /\ engine.fn = "findOptimisedRoute" /\ engine.openSet # <<>>) =>
          \A current \in engine'.current :
              LET open == engine.openSet
                  first == CHOOSE i \in 1..Len(open) :
                              open[i] = current /\ \A j \in 1..(i - 1) : open[j] # current
              IN \A i \in 1..Len(open) :
                    /\ open[i].f >= current.f
                    /\ open[i].f = current.f => open[i].g >= current.g
                    /\ (open[i].f = current.f /\ open[i].g = current.g) => i >= first]_vars

----------------------------------------------------------------------------
(* getPointsNearRouteSegment and getPointsNearRoute on their own *)

\* The most geopoints given to one call
MaxSegmentPoints == 2

\* Segments along the equator, along the parallel 2000 m north of it, and of
\* no length
SegmentEnds == {[lat |-> 0, lon |-> 2000], [lat |-> 0, lon |-> 5000],
                [lat |-> 2000, lon |-> 2000], [lat |-> 2000, lon |-> 5000]}

SegmentTypes == <<"Population", "Weather", "Airport">>

\* Places of geopoints: on the equator, on the prime meridian, at a segment
\* end, on the northern segment, 600 m and 30 km north of it
SegmentPlaces ==
    <<[lat |-> 0, lon |-> 3000], [lat |-> 2400, lon |-> 0], [lat |-> 2000, lon |-> 2000],
      [lat |-> 2000, lon |-> 3000], [lat |-> 2600, lon |-> 3000], [lat |-> 32000, lon |-> 3000]>>

SegmentCatalogue ==
    {GeoItem(10 * t + q, SegmentPlaces[q].lat, SegmentPlaces[q].lon, SegmentTypes[t], 900, 600, 24, TRUE) :
        t \in 1..Len(SegmentTypes), q \in 1..Len(SegmentPlaces)}

\* One call of getPointsNearRouteSegment(start, end, geoPoints)
SegmentCall ==
    /\ engine.pc = "idle"
    /\ \E start \in SegmentEnds, end \in SegmentEnds :
         \E points \in SubsetsUpTo(SegmentCatalogue, MaxSegmentPoints) :
         \E geoPoints \in {SortById(points)} :
            engine' = [pc |-> "returned", fn |-> "getPointsNearRouteSegment",
                       start |-> start, end |-> end, geoPoints |-> geoPoints,
                       results |-> getPointsNearRouteSegment(start, end, geoPoints)]
    /\ UNCHANGED <<bw, spatial, fq, api, fc, workerVars>>

\* The longest route given to one call, in points
MaxRoutePoints == 3

\* One call of getPointsNearRoute(routePoints, geoPoints)
RoutePointsCall ==
    /\ engine.pc = "idle"
    /\ \E n \in 0..MaxRoutePoints : \E routePoints \in [1..n -> SegmentEnds] :
         \E points \in SubsetsUpTo(SegmentCatalogue, MaxSegmentPoints) :
         \E geoPoints \in {SortById(points)} :
            engine' = [pc |-> "returned", fn |-> "getPointsNearRoute",
                       routePoints |-> routePoints, geoPoints |-> geoPoints,
                       results |-> getPointsNearRoute(routePoints, geoPoints)]
    /\ UNCHANGED <<bw, spatial, fq, api, fc, workerVars>>

SpecSegment == CorridorInit /\ [][SegmentCall \/ RoutePointsCall]_vars

\* The distance of a point to a segment: what getDistanceFromLine gives, and
\* the distance to the line start where that is NaN (the point is the line
\* start, or the line has no length)
SegmentDistance(point, start, end) ==
    LET distance == getDistanceFromLine(point, start, end)
    IN IF distance = {} THEN getDistance(start, point) ELSE CHOOSE d \in distance : TRUE

\* C24: getPointsNearRouteSegment retains a geopoint if and only if it is a
\* Population point at most 500 m from the segment or a Weather point at most
\* 20000 m from it, wherever the point lies
C24_RetainedIffNear ==
    (engine.pc = "returned" /\ engine.fn = "getPointsNearRouteSegment") =>
        \A i \in 1..Len(engine.geoPoints) :
            LET point == engine.geoPoints[i]
                distance == SegmentDistance(point, engine.start, engine.end)
            IN point \in Range(engine.results) <=>
                  \/ point.type = "Population" /\ distance <= 500
                  \/ point.type = "Weather" /\ distance <= 20000

\* The points retained for segment number k of the route of the call
RetainedFor(k) ==
    getPointsNearRouteSegment(engine.routePoints[k], engine.routePoints[k + 1], engine.geoPoints)

\* C25: getPointsNearRoute returns no two points of the same lat and lon,
\* returns for every point retained for a segment a point of its lat and
\* lon, and returns only points retained for a segment
C25_UnionDeduplicated ==
    (engine.pc = "returned" /\ engine.fn = "getPointsNearRoute") =>
        LET results == engine.results
            segments == 1..(Len(engine.routePoints) - 1)
        IN /\ \A i, j \in 1..Len(results) :
                 (results[i].lat = results[j].lat /\ results[i].lon = results[j].lon) => i = j
           /\ \A k \in segments : \A p \in Range(RetainedFor(k)) :
                 \E i \in 1..Len(results) : results[i].lat = p.lat /\ results[i].lon = p.lon
           /\ \A i \in 1..Len(results) : \E k \in segments : results[i] \in Range(RetainedFor(k))

\* A route of two segments with a populated cell retained for both and
\* returned once
C25_Witness ==
    /\ engine.pc = "returned"
    /\ engine.fn = "getPointsNearRoute"
    /\ Len(engine.routePoints) = 3
    /\ \E p \in Range(RetainedFor(1)) \cap Range(RetainedFor(2)) : p.type = "Population"
    /\ Len(engine.results) = 1

----------------------------------------------------------------------------
(* The outputs of the handlers over the orders the queries can finish in *)

\* Geopoints of three partitions of the corridor: the three of the route runs
\* and a second weather station
OrderCatalogue ==
    RouteCatalogue \cup {GeoItem(7, 2000, 7000, "Weather", 0, 900, 8, TRUE)}

OrderEnds == {[lat |-> 2000, lon |-> 5000], [lat |-> 2400, lon |-> 4000]}

\* One fetch over the corridor of a route, resolved with the queries that
\* succeeded in the order they finished, and what assess and the worker make
\* of it
OrderCall ==
    /\ engine.pc = "idle"
    /\ \E store \in SUBSET OrderCatalogue, start \in SearchStarts, end \in OrderEnds :
         \E chunks \in {chunkArray(getRouteGeoHashes(start, end, PARTITION_KEY_HASH_PRECISION),
                                    FETCH_CHUNK_SIZE)} :
         \E results \in FetchResults(store, chunks, FALSE) :
         \E assessed \in {AssessResponse(<<start, end>>, results)} :
         \E optimised \in {WorkerOutput(start, end, results)} :
            engine' = [pc |-> "returned", fn |-> "fetchGeoHashItemsFromDynamoDB",
                       store |-> store, chunks |-> chunks, start |-> start, end |-> end,
                       results |-> results, assessed |-> assessed, optimised |-> optimised]
    /\ UNCHANGED <<bw, spatial, fq, api, fc, workerVars>>

SpecOrder == CorridorInit /\ [][OrderCall]_vars

\* What the same queries with the same answers give in another order
OtherOrders ==
    {other \in FetchResults(engine.store, engine.chunks, FALSE) :
        /\ Len(other) = Len(engine.results)
        /\ Range(other) = Range(engine.results)
        /\ other # engine.results}

----------------------------------------------------------------------------
(* The impact assessment of a set of geopoints on its own *)

\* The most geopoints near one route
MaxImpactPoints == 2

\* Populations of a cell, visibilities in metres and wind speeds in m/s
ImpactPopulations == <<0, 400, 4960, 49600, 60000>>

ImpactVisibilities == <<0, 10, 990, 1000, 24000>>

ImpactWindSpeeds == <<0, 1, 19, 20, 21, 40>>

\* Geopoints near a route: populated cells from empty to far beyond the 5000
\* people of the top noise score, and weather stations from no visibility to
\* clear and from calm to storm
ImpactCatalogue ==
    {GeoItem(1 + k, 2000, 3000, "Population", ImpactPopulations[k + 1], 0, 0, TRUE) :
        k \in 0..(Len(ImpactPopulations) - 1)}
    \cup {GeoItem(100 + 10 * v + w, 2000, 4000, "Weather", 0, ImpactVisibilities[v], ImpactWindSpeeds[w], TRUE) :
        v \in 1..Len(ImpactVisibilities), w \in 1..Len(ImpactWindSpeeds)}

\* The assess handler's step 3 on the geopoints near the route
ImpactCall ==
    /\ engine.pc = "idle"
    /\ \E points \in SubsetsUpTo(ImpactCatalogue, MaxImpactPoints) :
         \E routePointsOfInterest \in {SortById(points)} :
         \E populationImpact \in {assessPopulationImpact(routePointsOfInterest)} :
         \E weather \in {assessWeatherImpact(routePointsOfInterest)} :
            engine' = [pc |-> "returned", fn |-> "assessImpact",
                       geoPoints |-> routePointsOfInterest,
                       populationImpact |-> populationImpact,
                       noiseImpactScore |-> {assessNoiseImpact(populationImpact)},
                       visibilityRisk |-> weather.visibilityRisk,
                       windRisk |-> weather.windRisk]
    /\ UNCHANGED <<bw, spatial, fq, api, fc, workerVars>>

SpecImpact == CorridorInit /\ [][ImpactCall]_vars

----------------------------------------------------------------------------
(* load-weather-data: batchWriteItems *)

\* Largest number of weather items handed to batchWriteItems
MaxWeatherItems == 51

\* const batchSize = 25
batchSize == 25

\* for (let i = 0; i < items.length; i += batchSize) batches.push(items.slice(i, i + batchSize))
SplitBatches(items) ==
    [k \in 1..((Len(items) + batchSize - 1) \div batchSize) |->
        SubSeq(items, (k - 1) * batchSize + 1, Min(k * batchSize, Len(items)))]

\* Outcomes of one ddbClient.batchWrite call: it resolves or it rejects
BatchWriteOutcomes == {"ok", "throw"}

\* The items of valid reports are numbered from 1; null and undefined, which
\* are no items, are written 0 and -1. A write request with a null Item is
\* rejected as a whole
Null == 0

Undefined == -1

BwInit ==
    /\ spatial = {}
    /\ fq = FetchIdle
    /\ api = ApiIdle
    /\ fc = CountIdle
    /\ WorkerIdle
    /\ engine = EngineIdle
    /\ \E n \in 0..MaxWeatherItems :
        bw = [pc |-> "call", items |-> [i \in 1..n |-> i], batches |-> <<>>,
              idx |-> 0, processedReports |-> 0, errors |-> 0,
              requests |-> <<>>, failedAt |-> {}, stored |-> {}, threw |-> FALSE]

\* Entry of batchWriteItems: the items are split into batches
BatchSplit ==
    /\ bw.pc = "call"
    /\ bw' = [bw EXCEPT !.pc = "loop", !.batches = SplitBatches(bw.items), !.idx = 1]
    /\ UNCHANGED <<spatial, engine, fq, api, fc, workerVars>>

\* try { await ddbClient.batchWrite(...); stats.processedReports += batch.length }
BatchWritten(s, batch) ==
    [s EXCEPT !.requests = Append(@, batch),
              !.idx = @ + 1,
              !.processedReports = @ + Len(batch),
              !.stored = @ \cup Range(batch)]

\* A slip that drops the catch block: the rejection leaves batchWriteItems
BatchErrorRethrown(s, batch) ==
    [s EXCEPT !.requests = Append(@, batch), !.pc = "threw", !.threw = TRUE]

\* catch (error) { logger.error(...); stats.errors += batch.length }
BatchErrorCaught(s, batch) ==
    [s EXCEPT !.requests = Append(@, batch),
              !.idx = @ + 1,
              !.errors = @ + Len(batch),
              !.failedAt = @ \cup {s.idx}]

\* One iteration of the for-of loop: the batch write inside try/catch
BatchWrite ==
    /\ bw.pc = "loop"
    /\ bw.idx <= Len(bw.batches)
    /\ \E outcome \in BatchWriteOutcomes :
        LET batch == bw.batches[bw.idx] IN
        /\ outcome = "ok" => Null \notin Range(batch)
        /\ bw' = IF outcome = "ok" THEN BatchWritten(bw, batch)
                                   ELSE BatchErrorCaught(bw, batch)
    /\ UNCHANGED <<spatial, engine, fq, api, fc, workerVars>>

\* The loop is exhausted and batchWriteItems resolves
BatchReturn ==
    /\ bw.pc = "loop"
    /\ bw.idx > Len(bw.batches)
    /\ bw' = [bw EXCEPT !.pc = "returned"]
    /\ UNCHANGED <<spatial, engine, fq, api, fc, workerVars>>

BwNext == BatchSplit \/ BatchWrite \/ BatchReturn

SpecBatch == BwInit /\ [][BwNext]_vars

----------------------------------------------------------------------------
(* load-weather-data: from the METAR reports to the batches *)

\* The most METAR reports of one run
MaxMetarReports == 2

\* A latitude or longitude that is text but no number
NonNumeric == [k |-> "text", v |-> 0]

\* isNumeric(value)
isNumeric(value) == value.k = "num"

\* METAR reports, in degrees: each field absent, not a number, out of range,
\* on the bound or within
MetarReports ==
    [latitude : {Missing, NonNumeric, Num(-91), Num(37), Num(90), Num(91)},
     longitude : {Missing, NonNumeric, Num(-122), Num(181)}]

\* createWeatherReportFromMetar(metar): the validation checks, then the coords
createWeatherReportFromMetar(metar) ==
    LET latitudeValid ==
            /\ isNumeric(metar.latitude)
            /\ ~(metar.latitude.v < -90 \/ metar.latitude.v > 90)
        longitudeValid ==
            /\ isNumeric(metar.longitude)
            /\ ~(metar.longitude.v < -180 \/ metar.longitude.v > 180)
        isValid ==
            /\ metar.latitude # Missing
            /\ metar.longitude # Missing
            /\ latitudeValid
            /\ longitudeValid
    IN [isValid |-> isValid,
        lat |-> IF isValid THEN metar.latitude.v ELSE 0,
        lon |-> IF isValid THEN metar.longitude.v ELSE 0]

\* new WeatherReport(metar): the report of a METAR, validated
WeatherReport(metar) == createWeatherReportFromMetar(metar)

\* getDynamoDBJson(): if (this.isValid) return json; else return null.
\* json is the number the report has in the run
getDynamoDBJson(report, json) == IF report.isValid THEN json ELSE Null

\* metarReports.map(...).filter((item) => item !== undefined)
WeatherItems(metarReports) ==
    LET defined(item) == item # Undefined
    IN SelectSeq([i \in 1..Len(metarReports) |-> getDynamoDBJson(WeatherReport(metarReports[i]), i)],
                 defined)

LoadInit ==
    /\ spatial = {}
    /\ fq = FetchIdle
    /\ api = ApiIdle
    /\ fc = CountIdle
    /\ WorkerIdle
    /\ engine = EngineIdle
    /\ \E n \in 0..MaxMetarReports : \E metarReports \in [1..n -> MetarReports] :
        bw = [pc |-> "handler", metarReports |-> metarReports, items |-> <<>>, batches |-> <<>>,
              idx |-> 0, weatherReports |-> 0, parsedWeatherReports |-> 0,
              processedReports |-> 0, errors |-> 0,
              requests |-> <<>>, failedAt |-> {}, stored |-> {}, threw |-> FALSE]

\* The handler from the parsed METAR reports to the call of batchWriteItems,
\* which it makes only when there are items
LoadHandle ==
    /\ bw.pc = "handler"
    /\ \E weatherItems \in {WeatherItems(bw.metarReports)} :
         bw' = [bw EXCEPT !.pc = IF Len(weatherItems) > 0 THEN "call" ELSE "returned",
                          !.items = weatherItems,
                          !.weatherReports = Len(bw.metarReports),
                          !.parsedWeatherReports = Len(weatherItems)]
    /\ UNCHANGED <<spatial, engine, fq, api, fc, workerVars>>

LoadNext == LoadHandle \/ BatchSplit \/ BatchWrite \/ BatchReturn

SpecLoad == LoadInit /\ [][LoadNext]_vars

\* The numbers of the valid reports of the run
ValidReports ==
    {i \in 1..Len(bw.metarReports) : WeatherReport(bw.metarReports[i]).isValid}

RECURSIVE SumLen(_, _)
SumLen(batches, ks) ==
    IF ks = {} THEN 0
    ELSE LET k == CHOOSE x \in ks : TRUE IN Len(batches[k]) + SumLen(batches, ks \ {k})

\* C9: batchWriteItems splits the items into consecutive groups of at most 25
\* that together hold every item exactly once, sends each group in one write
\* request in order, adds the size of every failed group to the error counter,
\* still attempts every later group, and never fails because a group failed.
C9_BatchWriteGroups ==
    /\ bw.pc # "threw" /\ ~bw.threw
    /\ bw.pc # "call" =>
          /\ Flatten(bw.batches) = bw.items
          /\ \A k \in 1..Len(bw.batches) : Len(bw.batches[k]) \in 1..25
          /\ Len(bw.requests) = bw.idx - 1
          /\ bw.requests = SubSeq(bw.batches, 1, Len(bw.requests))
          /\ bw.errors = SumLen(bw.batches, bw.failedAt)
          /\ bw.processedReports + bw.errors = Len(Flatten(bw.requests))
          /\ bw.stored = UNION {Range(bw.requests[k]) : k \in (1..Len(bw.requests)) \ bw.failedAt}
    /\ bw.pc = "returned" => Flatten(bw.requests) = bw.items

\* A run of three groups whose first group failed and which still returned
C9_Witness ==
    /\ bw.pc = "returned"
    /\ Len(bw.batches) = 3
    /\ 1 \in bw.failedAt
    /\ bw.errors = 25
    /\ bw.processedReports > 0

\* C29: an event is posted only by a run whose update was persisted; it is a
\* routeOptimised event whose id is the key of the updated record and whose
\* route, routeDistance and populationImpact are the values that update wrote
\* to the record; a run whose update failed posts nothing
C29_EventAfterUpdate ==
    [][sink' # sink =>
          /\ run.updated
          /\ Len(sink') = Len(sink) + 1
          /\ SubSeq(sink', 1, Len(sink)) = sink
          /\ LET event == sink'[Len(sink')]
                 id == run.routeRecord.PK
             IN /\ event.type = "routeOptimised"
                /\ event.id = id
                /\ routes[id].optimisedRoute = {event.route}
                /\ routes[id].optimisedRouteDistance = {event.routeDistance}
                /\ routes[id].populationImpact = {event.populationImpact}]_vars

\* A run has updated the record of its route and its event was accepted
C29_Witness ==
    /\ run.pc = "done"
    /\ run.updated
    /\ run.publish = "ok"
    /\ \E i \in 1..Len(sink) :
          /\ sink[i].id = run.routeRecord.PK
          /\ routes[sink[i].id].optimisedRoute = {sink[i].route}
          /\ Len(sink[i].route) > 2

\* The items of the pages query i has read, in the order they were read
PagesRead(i) == Flatten([k \in 1..Len(fq.q[i].got) |-> fq.q[i].got[k].Items])

\* C30: when fetchGeoHashItemsFromDynamoDB returns, a prefix one of whose
\* page requests failed has none of its items in the result, the pages read
\* before the failure included; every other prefix has the items of all the
\* pages read for it in the result, together, in order and once; and the
\* result holds nothing else
C30_PrefixAllOrNothing ==
    fq.pc = "returned" =>
        /\ \A i \in DOMAIN fq.q :
              IF fq.q[i].st = "failed"
              THEN \A k \in 1..Len(fq.results) :
                       /\ fq.results[k] \notin Range(PagesRead(i))
                       /\ fq.results[k] \notin
                             Range(Partition(spatial, fq.geoHashes[i], fq.useGSI1))
              ELSE /\ Contiguous(PagesRead(i), fq.results)
                   /\ \A item \in Range(PagesRead(i)) :
                         Cardinality({k \in 1..Len(fq.results) : fq.results[k] = item}) = 1
        /\ \A k \in 1..Len(fq.results) :
              \E i \in DOMAIN fq.q :
                  fq.q[i].st = "ok" /\ fq.results[k] \in Range(PagesRead(i))

\* The call returned after one prefix failed behind a page with items and
\* another prefix was read in two pages with items
C30_Witness ==
    /\ fq.pc = "returned"
    /\ \E i, j \in DOMAIN fq.q :
          /\ fq.q[i].st = "failed"
          /\ PagesRead(i) # <<>>
          /\ fq.q[j].st = "ok"
          /\ Len(fq.q[j].got) >= 2
          /\ fq.q[j].got[1].Items # <<>>
          /\ fq.q[j].got[2].Items # <<>>
          /\ Len(fq.results) = Len(PagesRead(j))

====
